---------------------------- MODULE Spec2Model ----------------------------
(***************************************************************************)
(* Beat timeline model of the video composer: the project state's beat     *)
(* list and the Timeline Editing Engine (split, merge, per-beat updates),  *)
(* with the Timeline component's merge selection.                          *)
(*                                                                         *)
(* Times are JavaScript numbers in the source.  They are modelled as exact *)
(* rationals <<n, d>> in lowest terms, so every statement about times here *)
(* is a statement about the arithmetic the code writes down, without the   *)
(* rounding of IEEE doubles.                                               *)
(* Texts are sequences of one-character strings.  Images (data or blob     *)
(* URLs) are positive integers, and 0 stands for `undefined`.              *)
(*                                                                         *)
(* Spec runs the handlers of the project state with any arguments;         *)
(* SpecTimeline runs the merge as the Timeline component drives it, from   *)
(* the rows the user selects.                                              *)
(***************************************************************************)
EXTENDS Integers, Sequences, FiniteSets, TLC

VARIABLES
    beats,            \* state.beats : Beat[]
    status,           \* status line set by setStatus
    now,              \* the value Date.now() returns
    nextImage,        \* the next object URL URL.createObjectURL hands out
    isSelectionMode,  \* Timeline: isSelectionMode
    selectedBeatIds,  \* Timeline: selectedBeatIds, a Set in insertion order
    mergeCalls,       \* number of calls of handleMergeBeats so far
    last,             \* the last handler of the project state that ran, with its
                      \* arguments and the list before it
    steps,            \* number of handler runs so far
    exportBeats,      \* renderVideoToBlob: the beats argument
    pc,               \* renderVideoToBlob: where the executor of the promise is
    promise,          \* renderVideoToBlob: the promise it returns
    video,            \* renderVideoToBlob: the off-screen video element
    canvas,           \* renderVideoToBlob: the canvas element
    audioCtx,         \* renderVideoToBlob: the audio context and its source node
    mediaRecorder,    \* renderVideoToBlob: the MediaRecorder
    imageCache,       \* renderVideoToBlob: imageCache, url -> state of the Image
    frameRequested,   \* renderFrame is registered as the next frame callback
    lastFrame,        \* what renderFrame drew last on the canvas
    reports,          \* the calls of onProgress so far
    retry,            \* runWithRetry: the call under way, its arguments and history
    bulkRuns,         \* handleBulkGenerate: the calls under way, one loop each
    imageRequests,    \* image requests of single beats that have not returned yet
    imageDone,        \* the image operation of a single beat that ended last
    aRoll,            \* the A-roll video, its transcript and the analyses under way
    exportUi,         \* handleExportVideo: isExporting and the reset of the progress
    audio,            \* the audio operation under way and the contexts it opened
    crop,             \* the crop of the A-roll for a split frame: inputs and result
    wav               \* audioBufferToWav: a sample and the value stored for it

appVars == <<beats, status, now, nextImage, isSelectionMode, selectedBeatIds,
             mergeCalls, last, steps>>

exportVars == <<exportBeats, pc, promise, video, canvas, audioCtx, mediaRecorder,
                imageCache, frameRequested, lastFrame, reports>>

retryVars == <<retry>>

imageVars == <<imageRequests, imageDone>>

mediaVars == <<aRoll, exportUi, audio, crop, wav>>

\* What the handlers of the project state leave alone
otherVars == <<exportVars, retryVars, bulkRuns, imageVars, mediaVars>>

\* What the export leaves alone
notExportVars == <<appVars, retryVars, bulkRuns, imageVars, mediaVars>>

\* What runWithRetry leaves alone
notRetryVars == <<appVars, exportVars, bulkRuns, imageVars, mediaVars>>

vars == <<appVars, exportVars, retryVars, bulkRuns, imageVars, mediaVars>>

---------------------------------------------------------------------------
(* Bounds of the model *)

MaxSteps == 3
MaxClock == 1
MaxImages == 2
MaxIds == 2
MaxDuration == 3
MaxReports == 3
MaxBulkRuns == 2
MaxVersions == 2
MaxRequests == 1
MaxUploads == 2
MaxAudioOps == 2
MaxClips == 2
SampleSteps == 40
MaxSample == 60

---------------------------------------------------------------------------
(* Exact rational arithmetic for the time stamps *)

RECURSIVE GCD(_, _)
GCD(a, b) == IF b = 0 THEN a ELSE GCD(b, a % b)

Abs(n) == IF n < 0 THEN -n ELSE n

Norm(n, d) ==
    LET g == GCD(Abs(n), d)
    IN  IF n = 0 THEN <<0, 1>> ELSE <<n \div g, d \div g>>

Num(n) == <<n, 1>>
RAdd(x, y) == Norm(x[1] * y[2] + y[1] * x[2], x[2] * y[2])
RSub(x, y) == Norm(x[1] * y[2] - y[1] * x[2], x[2] * y[2])
RLess(x, y) == x[1] * y[2] < y[1] * x[2]
RLeq(x, y) == x[1] * y[2] <= y[1] * x[2]
RMax(x, y) == IF RLess(x, y) THEN y ELSE x

\* A slip: the part's length left out of the proportion
PartDuration_NoLength(len, totalLength, totalDuration) ==
    Norm(totalDuration[1], totalLength * totalDuration[2])

\* (len / totalLength) * totalDuration
PartDuration(len, totalLength, totalDuration) ==
    Norm(len * totalDuration[1], totalLength * totalDuration[2])

---------------------------------------------------------------------------
(* Strings *)

Space == " "

\* String.prototype.substring(from, to) for 0 <= from <= to <= length
Substring(text, from, to) == SubSeq(text, from + 1, to)

RECURSIVE TrimStart(_)
TrimStart(text) ==
    IF text # <<>> /\ Head(text) = Space THEN TrimStart(Tail(text)) ELSE text

RECURSIVE TrimEnd(_)
TrimEnd(text) ==
    IF text # <<>> /\ text[Len(text)] = Space
    THEN TrimEnd(SubSeq(text, 1, Len(text) - 1))
    ELSE text

\* String.prototype.trim()
Trim(text) == TrimEnd(TrimStart(text))

\* Array.prototype.join(" ") of an array of strings
RECURSIVE Join(_)
Join(texts) ==
    IF texts = <<>> THEN <<>>
    ELSE IF Len(texts) = 1 THEN texts[1]
    ELSE texts[1] \o <<Space>> \o Join(Tail(texts))

\* text.split(' ').length
WordCount(text) == Cardinality({i \in 1..Len(text) : text[i] = Space}) + 1

---------------------------------------------------------------------------
(* Arrays *)

Includes(arr, x) == \E i \in 1..Len(arr) : arr[i] = x

\* findIndex: the first 1-based index with the id, 0 when there is none
FindIndex(arr, id) ==
    IF \E i \in 1..Len(arr) : arr[i].id = id
    THEN CHOOSE i \in 1..Len(arr) :
            /\ arr[i].id = id
            /\ \A j \in 1..(i - 1) : arr[j].id # id
    ELSE 0

\* Insert x behind every element that does not start later than x
RECURSIVE InsertByStart(_, _)
InsertByStart(sorted, x) ==
    IF sorted = <<>> THEN <<x>>
    ELSE IF RLess(x.startTime, Head(sorted).startTime) THEN <<x>> \o sorted
    ELSE <<Head(sorted)>> \o InsertByStart(Tail(sorted), x)

\* arr.sort((a, b) => a.startTime - b.startTime), a stable sort
RECURSIVE SortFrom(_, _)
SortFrom(sorted, rest) ==
    IF rest = <<>> THEN sorted
    ELSE SortFrom(InsertByStart(sorted, Head(rest)), Tail(rest))

SortByStartTime(arr) == SortFrom(<<>>, arr)

\* Array.from(new Set(arr)): first occurrences, in order
RECURSIVE Unique(_)
Unique(arr) ==
    IF arr = <<>> THEN <<>>
    ELSE LET init == Unique(SubSeq(arr, 1, Len(arr) - 1))
             x == arr[Len(arr)]
         IN  IF Includes(init, x) THEN init ELSE Append(init, x)

RECURSIVE FlatMapOptions(_)
FlatMapOptions(arr) ==
    IF arr = <<>> THEN <<>>
    ELSE Head(arr).bRollOptions \o FlatMapOptions(Tail(arr))

RECURSIVE MapText(_)
MapText(arr) ==
    IF arr = <<>> THEN <<>>
    ELSE <<Head(arr).textSegment>> \o MapText(Tail(arr))


---------------------------------------------------------------------------
(* Beats *)

Undefined == 0        \* an absent image
Unset == -1           \* an absent optional number (aRollOffsetY)
FULL == "full"
SPLIT == "split"

NoStyleConfig == [defined |-> FALSE, themePrompt |-> ""]

BeatId(kind, t, i) == [kind |-> kind, t |-> t, i |-> i]
UnknownId == BeatId("unknown", 0, 0)

\* `beat-${Date.now()}-${i}`
FreshBeatId(t, i) == BeatId("beat", t, i)
\* `beat-merged-${Date.now()}`
MergedBeatId(t) == BeatId("beat-merged", t, 0)

Prompt(src, text) == [src |-> src, text |-> text]

AnalysisSettings == [x |-> 0, y |-> 0, scale |-> 1, height |-> 50, aRollOffsetY |-> Unset]
SplitSettings == [x |-> 0, y |-> 0, scale |-> 1, height |-> 50, aRollOffsetY |-> 50]

\* What the analysis service may answer: lists of {textSegment, overlayType}
AnalysisAnswers ==
    { << [textSegment |-> <<"c", "d">>, overlayType |-> FULL],
         [textSegment |-> <<"a", " ", "b">>, overlayType |-> SPLIT],
         [textSegment |-> <<"e">>, overlayType |-> FULL] >>,
      << [textSegment |-> <<"a", "b", "c">>, overlayType |-> SPLIT],
         [textSegment |-> <<" ", "d">>, overlayType |-> FULL] >> }

\* analyzeBeats: json.map((item, index) => ({...}))
AnalyzedBeat(item, index, t) ==
    [ id |-> FreshBeatId(t, index),
      startTime |-> Num(0),
      endTime |-> Num(0),
      textSegment |-> item.textSegment,
      visualPrompt |-> Prompt("analysis", item.textSegment),
      bRollImage |-> Undefined,
      overlayType |-> item.overlayType,
      isEnabled |-> TRUE,
      bRollSettings |-> AnalysisSettings,
      bRollOptions |-> <<>>,
      styleConfig |-> NoStyleConfig ]

\* Math.max(2, wordCount / 2.5)
BeatDuration(text) == RMax(Num(2), Norm(2 * WordCount(text), 5))

\* handleAnalyzeBeats: the running sum that assigns startTime and endTime
RECURSIVE AssignTimes(_, _, _, _)
AssignTimes(items, index, currentT, t) ==
    IF items = <<>> THEN <<>>
    ELSE LET beat == AnalyzedBeat(Head(items), index, t)
             dur == BeatDuration(beat.textSegment)
             b == [beat EXCEPT !.startTime = currentT, !.endTime = RAdd(currentT, dur)]
         IN  <<b>> \o AssignTimes(Tail(items), index + 1, RAdd(currentT, dur), t)

---------------------------------------------------------------------------
(* Timeline Editing Engine *)

\* handleSplitBeat: the parts kept of the text
SplitParts(text, startIdx, endIdx) ==
    LET len1 == startIdx
        len2 == endIdx - startIdx
        len3 == Len(text) - endIdx
        p1 == IF len1 > 0
              THEN << [text |-> Substring(text, 0, startIdx), len |-> len1] >>
              ELSE <<>>
        p2 == << [text |-> Substring(text, startIdx, endIdx), len |-> len2] >>
        p3 == IF len3 > 0
              THEN << [text |-> Substring(text, endIdx, Len(text)), len |-> len3] >>
              ELSE <<>>
    IN  p1 \o p2 \o p3

\* handleSplitBeat: the loop that creates one beat per part
RECURSIVE SplitLoop(_, _, _, _, _, _)
SplitLoop(parts, i, currentStartTime, originalBeat, totalLength, t) ==
    IF parts = <<>> THEN <<>>
    ELSE LET part == Head(parts)
             totalDuration == RSub(originalBeat.endTime, originalBeat.startTime)
             partDuration == PartDuration(part.len, totalLength, totalDuration)
             newBeat ==
                [ id |-> FreshBeatId(t, i),
                  startTime |-> currentStartTime,
                  endTime |-> RAdd(currentStartTime, partDuration),
                  textSegment |-> Trim(part.text),
                  visualPrompt |-> Prompt("split", Trim(part.text)),
                  bRollImage |-> Undefined,
                  overlayType |-> originalBeat.overlayType,
                  isEnabled |-> TRUE,
                  bRollSettings |-> SplitSettings,
                  bRollOptions |-> <<>>,
                  styleConfig |-> originalBeat.styleConfig ]
         IN  <<newBeat>> \o SplitLoop(Tail(parts), i + 1,
                                      RAdd(currentStartTime, partDuration),
                                      originalBeat, totalLength, t)

\* A slip: splice(beatIndex, 0, ...newBeats), which keeps the beat that was split
Splice_KeepsOriginal(arr, beatIndex, newBeats) ==
    SubSeq(arr, 1, beatIndex - 1) \o newBeats \o SubSeq(arr, beatIndex, Len(arr))

\* updatedBeats.splice(beatIndex, 1, ...newBeats), beatIndex 1-based here
Splice(arr, beatIndex, newBeats) ==
    SubSeq(arr, 1, beatIndex - 1) \o newBeats \o SubSeq(arr, beatIndex + 1, Len(arr))

\* A slip: startIdx > endIdx for startIdx >= endIdx, which lets an empty selection by
SplitAccepted_EmptyRange(list, beatId, startIdx, endIdx) ==
    /\ FindIndex(list, beatId) # 0
    /\ ~ ( \/ startIdx < 0
           \/ endIdx > Len(list[FindIndex(list, beatId)].textSegment)
           \/ startIdx > endIdx )

\* handleSplitBeat accepts the call
SplitAccepted(list, beatId, startIdx, endIdx) ==
    /\ FindIndex(list, beatId) # 0
    /\ ~ ( \/ startIdx < 0
           \/ endIdx > Len(list[FindIndex(list, beatId)].textSegment)
           \/ startIdx >= endIdx )

\* handleSplitBeat: the beat list it leaves
SplitBeat(list, beatId, startIdx, endIdx, t) ==
    IF ~ SplitAccepted(list, beatId, startIdx, endIdx) THEN list
    ELSE LET beatIndex == FindIndex(list, beatId)
             originalBeat == list[beatIndex]
             text == originalBeat.textSegment
             parts == SplitParts(text, startIdx, endIdx)
             newBeats == SplitLoop(parts, 0, originalBeat.startTime,
                                   originalBeat, Len(text), t)
         IN  Splice(list, beatIndex, newBeats)

\* handleMergeBeats: state.beats.filter(b => beatIds.includes(b.id))
SelectedBeats(list, beatIds) == SelectSeq(list, LAMBDA b : Includes(beatIds, b.id))

\* handleMergeBeats: state.beats.filter(b => !beatIds.includes(b.id))
RemainingBeats(list, beatIds) == SelectSeq(list, LAMBDA b : ~ Includes(beatIds, b.id))

\* A slip: the galleries put one behind the other, duplicates kept
AllImages_Duplicates(selectedBeats, firstBeat) ==
    LET allImages == FlatMapOptions(selectedBeats)
    IN  IF firstBeat.bRollImage # Undefined /\ ~ Includes(allImages, firstBeat.bRollImage)
        THEN <<firstBeat.bRollImage>> \o allImages
        ELSE allImages

\* handleMergeBeats: the gallery of the merged beat
AllImages(selectedBeats, firstBeat) ==
    LET allImages == Unique(FlatMapOptions(selectedBeats))
    IN  IF firstBeat.bRollImage # Undefined /\ ~ Includes(allImages, firstBeat.bRollImage)
        THEN <<firstBeat.bRollImage>> \o allImages
        ELSE allImages

\* A slip: isEnabled and overlayType taken from the last selected beat
MergedBeat_LastVisuals(list, beatIds, t) ==
    LET selectedBeats == SortByStartTime(SelectedBeats(list, beatIds))
        firstBeat == selectedBeats[1]
        lastBeat == selectedBeats[Len(selectedBeats)]
    IN  [ id |-> MergedBeatId(t),
          startTime |-> firstBeat.startTime,
          endTime |-> lastBeat.endTime,
          textSegment |-> Join(MapText(selectedBeats)),
          visualPrompt |-> firstBeat.visualPrompt,
          bRollImage |-> firstBeat.bRollImage,
          overlayType |-> lastBeat.overlayType,
          isEnabled |-> lastBeat.isEnabled,
          bRollSettings |-> firstBeat.bRollSettings,
          bRollOptions |-> AllImages(selectedBeats, firstBeat),
          styleConfig |-> firstBeat.styleConfig ]

\* handleMergeBeats: the merged beat
MergedBeat(list, beatIds, t) ==
    LET selectedBeats == SortByStartTime(SelectedBeats(list, beatIds))
        firstBeat == selectedBeats[1]
        lastBeat == selectedBeats[Len(selectedBeats)]
    IN  [ id |-> MergedBeatId(t),
          startTime |-> firstBeat.startTime,
          endTime |-> lastBeat.endTime,
          textSegment |-> Join(MapText(selectedBeats)),
          visualPrompt |-> firstBeat.visualPrompt,
          bRollImage |-> firstBeat.bRollImage,
          overlayType |-> firstBeat.overlayType,
          isEnabled |-> firstBeat.isEnabled,
          bRollSettings |-> firstBeat.bRollSettings,
          bRollOptions |-> AllImages(selectedBeats, firstBeat),
          styleConfig |-> firstBeat.styleConfig ]

\* A slip: selectedBeats.length < 1 for selectedBeats.length < 2
MergeAccepted_One(list, beatIds) == Len(SelectedBeats(list, beatIds)) >= 1

\* handleMergeBeats goes past its early return
MergeAccepted(list, beatIds) == Len(SelectedBeats(list, beatIds)) >= 2

\* A slip: the merged beat appended and the list not sorted again
MergeBeats_Unsorted(list, beatIds, t) ==
    IF ~ MergeAccepted(list, beatIds) THEN list
    ELSE Append(RemainingBeats(list, beatIds), MergedBeat(list, beatIds, t))

\* handleMergeBeats: the beat list it leaves
MergeBeats(list, beatIds, t) ==
    IF ~ MergeAccepted(list, beatIds) THEN list
    ELSE SortByStartTime(Append(RemainingBeats(list, beatIds), MergedBeat(list, beatIds, t)))

\* updateBeat: prev.beats.map(b => b.id === beatId ? { ...b, ...updates } : b)
ApplyUpdates(b, updates) ==
    [f \in DOMAIN b |-> IF f \in DOMAIN updates THEN updates[f] ELSE b[f]]

UpdateBeatList(list, beatId, updates) ==
    [i \in 1..Len(list) |->
        IF list[i].id = beatId THEN ApplyUpdates(list[i], updates) ELSE list[i]]

---------------------------------------------------------------------------
(* The program *)

IdsOf(list) == {list[i].id : i \in 1..Len(list)}

\* The arrays of ids tried on handleMergeBeats: every selection of 2..n beats of
\* the list in every order, and arrays that name fewer than two beats (empty,
\* one id, one id twice, unknown ids)
MergeInputs(list, n) ==
    LET ids == IdsOf(list)
        orders(k) == {a \in [1..k -> ids] : \A i, j \in 1..k : i # j => a[i] # a[j]}
    IN  UNION {orders(k) : k \in 2..n}
        \cup {<<>>, <<UnknownId>>}
        \cup UNION {{<<id>>, <<id, id>>, <<UnknownId, id>>} : id \in ids}

Status(text, n) == <<text, n>>

Ran(op, beatId, startIdx, endIdx, beatIds) ==
    [op |-> op, beatId |-> beatId, startIdx |-> startIdx, endIdx |-> endIdx,
     beatIds |-> beatIds, pre |-> beats, t |-> now, calls |-> mergeCalls]

\* Before renderVideoToBlob is called
NaN == -1
NoFrame == [drawn |-> FALSE]

\* Before runWithRetry is called
NoError == [status |-> Undefined, name |-> <<>>, message |-> <<>>]

InitRetry ==
    retry = [pc |-> "idle", fn |-> "", retries |-> 0, delay |-> 0, calls |-> 0, waits |-> <<>>,
             error |-> NoError, thrown |-> NoError, result |-> Undefined]

InitExport ==
    /\ exportBeats = <<>>
    /\ pc = "idle"
    /\ promise = "none"
    /\ video = [created |-> FALSE, removed |-> FALSE, paused |-> TRUE, ended |-> FALSE,
                error |-> FALSE, endedFired |-> FALSE, currentTime |-> 0,
                duration |-> NaN, frameCallback |-> "video"]
    /\ canvas = "none"
    /\ audioCtx = [state |-> "none", source |-> "none"]
    /\ mediaRecorder = [state |-> "none", stopCalled |-> FALSE, stopEvent |-> FALSE]
    /\ imageCache = <<>>
    /\ frameRequested = FALSE
    /\ lastFrame = NoFrame
    /\ reports = <<>>

\* No image request yet, no video, no export, no audio operation
InitLater ==
    /\ imageRequests = <<>>
    /\ imageDone = [op |-> "none", outcome |-> "none", error |-> "", beatId |-> UnknownId]
    /\ aRoll = [url |-> Undefined, transcript |-> <<>>, isAnalyzing |-> FALSE,
                analyses |-> <<>>, uploads |-> 0]
    /\ exportUi = [isExporting |-> FALSE, resetAt |-> Unset]
    /\ audio = [op |-> "none", pc |-> "idle", ctx |-> "none", open |-> 0, todo |-> 0,
                attempt |-> 0, ops |-> 0, outcome |-> "none"]
    /\ crop = [pc |-> "idle"]
    /\ wav = [pc |-> "idle"]

Init ==
    /\ beats = <<>>
    /\ status = Status("", 0)
    /\ now = 0
    /\ nextImage = 1
    /\ isSelectionMode = FALSE
    /\ selectedBeatIds = <<>>
    /\ mergeCalls = 0
    /\ last = [op |-> "init", beatId |-> UnknownId, startIdx |-> 0, endIdx |-> 0,
               beatIds |-> <<>>, pre |-> <<>>, t |-> 0, calls |-> 0]
    /\ steps = 0
    /\ InitExport
    /\ InitRetry
    /\ bulkRuns = <<>>
    /\ InitLater

\* The clock moves on
Tick ==
    /\ now < MaxClock
    /\ now' = now + 1
    /\ UNCHANGED <<beats, status, nextImage, isSelectionMode, selectedBeatIds,
                   mergeCalls, last, steps>>
    /\ UNCHANGED otherVars

\* handleAnalyzeBeats, from the answer of the service on
HandleAnalyzeBeats ==
    /\ steps < MaxSteps
    /\ \E answer \in AnalysisAnswers :
          beats' = AssignTimes(answer, 0, Num(0), now)
    /\ status' = Status("Analysis complete. Review beats and generate images.", 0)
    /\ last' = Ran("handleAnalyzeBeats", UnknownId, 0, 0, <<>>)
    /\ steps' = steps + 1
    /\ UNCHANGED <<now, nextImage, isSelectionMode, selectedBeatIds, mergeCalls>>
    /\ UNCHANGED otherVars

\* The offsets tried on a beat: every selection of its text, and calls with a
\* negative start, an end beyond the text, an empty and a reversed range
OffsetsOf(list, beatId) ==
    IF FindIndex(list, beatId) = 0 THEN {<<0, 1>>}
    ELSE LET len == Len(list[FindIndex(list, beatId)].textSegment)
         IN  {<<s, e>> \in (0..len) \X (0..len) : s < e}
             \cup {<<-1, 1>>, <<0, len + 1>>, <<len, len>>, <<1, 0>>}

\* handleSplitBeat(beatId, startIdx, endIdx)
HandleSplitBeat ==
    /\ steps < MaxSteps
    /\ \E beatId \in IdsOf(beats) \cup {UnknownId} :
       \E offsets \in OffsetsOf(beats, beatId) :
          /\ beats' = SplitBeat(beats, beatId, offsets[1], offsets[2], now)
          /\ last' = Ran("handleSplitBeat", beatId, offsets[1], offsets[2], <<>>)
    /\ steps' = steps + 1
    /\ UNCHANGED <<status, now, nextImage, isSelectionMode, selectedBeatIds, mergeCalls>>
    /\ UNCHANGED otherVars

\* handleMergeBeats(beatIds)
HandleMergeBeats ==
    /\ steps < MaxSteps
    /\ \E beatIds \in MergeInputs(beats, MaxIds) :
          /\ beats' = MergeBeats(beats, beatIds, now)
          /\ status' = IF MergeAccepted(beats, beatIds)
                       THEN Status("Merged beats.", Len(SelectedBeats(beats, beatIds)))
                       ELSE status
          /\ last' = Ran("handleMergeBeats", UnknownId, 0, 0, beatIds)
    /\ mergeCalls' = mergeCalls + 1
    /\ steps' = steps + 1
    /\ UNCHANGED <<now, nextImage, isSelectionMode, selectedBeatIds>>
    /\ UNCHANGED otherVars

\* Timeline: toggleSelectionMode
ToggleSelectionMode ==
    /\ isSelectionMode' = ~ isSelectionMode
    /\ selectedBeatIds' = <<>>
    /\ UNCHANGED <<beats, status, now, nextImage, mergeCalls, last, steps>>
    /\ UNCHANGED otherVars

\* Timeline: toggleBeatSelection(e, beatId), on a beat row in selection mode
ToggleBeatSelection ==
    /\ isSelectionMode
    /\ \E beatId \in IdsOf(beats) :
          selectedBeatIds' =
             IF Includes(selectedBeatIds, beatId)
             THEN SelectSeq(selectedBeatIds, LAMBDA id : id # beatId)
             ELSE Append(selectedBeatIds, beatId)
    /\ UNCHANGED <<beats, status, now, nextImage, isSelectionMode, mergeCalls,
                   last, steps>>
    /\ UNCHANGED otherVars

\* Timeline: handleMerge
HandleMerge ==
    /\ steps < MaxSteps
    /\ isSelectionMode
    /\ last' = Ran("handleMerge", UnknownId, 0, 0, selectedBeatIds)
    /\ steps' = steps + 1
    /\ IF Len(selectedBeatIds) < 2
       THEN UNCHANGED <<beats, status, isSelectionMode, selectedBeatIds, mergeCalls>>
       ELSE /\ beats' = MergeBeats(beats, selectedBeatIds, now)
            /\ status' = IF MergeAccepted(beats, selectedBeatIds)
                         THEN Status("Merged beats.",
                                     Len(SelectedBeats(beats, selectedBeatIds)))
                         ELSE status
            /\ mergeCalls' = mergeCalls + 1
            /\ selectedBeatIds' = <<>>
            /\ isSelectionMode' = FALSE
    /\ UNCHANGED <<now, nextImage>>
    /\ UNCHANGED otherVars

\* The updates the beat rows of the Timeline send through onUpdateBeat
RowUpdates(beat) ==
    { [isEnabled |-> ~ beat.isEnabled],
      [overlayType |-> IF beat.overlayType = SPLIT THEN FULL ELSE SPLIT],
      [bRollSettings |-> [beat.bRollSettings EXCEPT !.height = 30]],
      [styleConfig |-> [defined |-> TRUE, themePrompt |-> "noir"]] }
    \cup { [bRollImage |-> beat.bRollOptions[k]] : k \in 1..Len(beat.bRollOptions) }

\* updateBeat(beatId, updates), called from a beat row, and handleSelectImage
UpdateBeat ==
    /\ steps < MaxSteps
    /\ ~ isSelectionMode
    /\ \E i \in 1..Len(beats) :
       \E updates \in RowUpdates(beats[i]) :
          /\ beats' = UpdateBeatList(beats, beats[i].id, updates)
          /\ last' = Ran("updateBeat", beats[i].id, 0, 0, <<>>)
    /\ steps' = steps + 1
    /\ UNCHANGED <<status, now, nextImage, isSelectionMode, selectedBeatIds, mergeCalls>>
    /\ UNCHANGED otherVars

RECURSIVE GalleryTotal(_)

\* URL.createObjectURL(file) of the n-th upload
ObjectUrl(n) == n

\* What generateBRollImage may answer: a data URL, never an object URL
DataUrl(k) == 100 + k
GeneratedImages == {DataUrl(k) : k \in 1..MaxImages}
Failure == -2

\* The images the galleries of the list hold, all told
GalleryTotal(list) ==
    IF list = <<>> THEN 0 ELSE Len(list[1].bRollOptions) + GalleryTotal(Tail(list))

\* handleGenerateImageFromPrompt: the update of the list once the image is there
GeneratedInto(list, beatId, img, prompt) ==
    IF FindIndex(list, beatId) = 0 THEN list
    ELSE LET b == list[FindIndex(list, beatId)]
             newOptions == Append(b.bRollOptions, img)
         IN  [k \in 1..Len(list) |->
                IF list[k].id = beatId
                THEN [list[k] EXCEPT !.bRollImage = img,
                                     !.bRollOptions = newOptions,
                                     !.visualPrompt = prompt]
                ELSE list[k]]

\* handleGenerateImageFromPrompt(beatId, prompt), one version asked for
HandleGenerateImageFromPrompt ==
    /\ steps < MaxSteps
    /\ ~ isSelectionMode
    /\ GalleryTotal(beats) < MaxImages
    /\ \E i \in 1..Len(beats) :
       \E img \in GeneratedImages \cup {Failure} :
          LET beatId == beats[i].id
              prompt == Prompt("input", <<"p">>)
          IN  /\ beats' = IF img = Failure THEN beats
                          ELSE GeneratedInto(beats, beatId, img, prompt)
              /\ status' = IF img = Failure THEN Status("", 0)
                           ELSE Status("Generated 1 image.", 0)
              /\ last' = Ran("handleGenerateImageFromPrompt", beatId, 0, 0, <<>>)
    /\ UNCHANGED <<now, nextImage, isSelectionMode, selectedBeatIds, mergeCalls, steps>>
    /\ UNCHANGED otherVars

\* handleUploadImage(beatId, file)
HandleUploadImage ==
    /\ steps < MaxSteps
    /\ ~ isSelectionMode
    /\ nextImage <= MaxImages
    /\ \E i \in 1..Len(beats) :
          LET beatId == beats[i].id
              currentBeat == beats[FindIndex(beats, beatId)]
          IN  /\ beats' = UpdateBeatList(beats, beatId,
                              [bRollImage |-> nextImage,
                               bRollOptions |-> Append(currentBeat.bRollOptions, nextImage)])
              /\ last' = Ran("handleUploadImage", beatId, 0, 0, <<>>)
    /\ nextImage' = nextImage + 1
    /\ steps' = steps + 1
    /\ UNCHANGED <<status, now, isSelectionMode, selectedBeatIds, mergeCalls>>
    /\ UNCHANGED otherVars

\* The handlers of the project state, called with any arguments
Next ==
    \/ Tick
    \/ HandleAnalyzeBeats
    \/ HandleSplitBeat
    \/ HandleMergeBeats
    \/ UpdateBeat
    \/ HandleUploadImage

\* The merge as the Timeline component drives it, by selecting beat rows
NextTimeline ==
    \/ Tick
    \/ HandleAnalyzeBeats
    \/ HandleMergeBeats
    \/ ToggleSelectionMode
    \/ ToggleBeatSelection
    \/ HandleMerge

Spec == Init /\ [][Next]_vars

SpecTimeline == Init /\ [][NextTimeline]_vars

\* The galleries: analysis, generated images and merges
NextGallery ==
    \/ HandleAnalyzeBeats
    \/ HandleGenerateImageFromPrompt
    \/ HandleMergeBeats

SpecGallery == Init /\ [][NextGallery]_vars

---------------------------------------------------------------------------
(* Export: renderVideoToBlob *)

RMin(x, y) == IF RLess(y, x) THEN y ELSE x

\* The lists of beats the export is tried on: an analysed script whose first
\* beat is enabled or not and has an image or none, and whose second beat has
\* the same image or another one
ExportInputs ==
    LET analysed == AssignTimes(CHOOSE a \in AnalysisAnswers : Len(a) = 2, 0, Num(0), 0)
        id1 == analysed[1].id
        id2 == analysed[2].id
        prompt == Prompt("input", <<"p">>)
    IN  { UpdateBeatList(
            GeneratedInto(
              IF i1 = Undefined THEN analysed ELSE GeneratedInto(analysed, id1, i1, prompt),
              id2, i2, prompt),
            id1, [isEnabled |-> e1]) :
          e1 \in BOOLEAN, i1 \in {Undefined, DataUrl(1)}, i2 \in {DataUrl(1), DataUrl(2)} }

\* beats.map(b => b.bRollImage).filter(Boolean)
RECURSIVE ImagesOf(_)
ImagesOf(list) ==
    IF list = <<>> THEN <<>>
    ELSE IF Head(list).bRollImage # Undefined
         THEN <<Head(list).bRollImage>> \o ImagesOf(Tail(list))
         ELSE ImagesOf(Tail(list))

\* Array.from(new Set(...))
UniqueImages(list) == Unique(ImagesOf(list))

\* resolve and reject of a promise: the first call settles it
Settle(p, outcome) == IF p = "pending" THEN outcome ELSE p

\* beats.find(b => currentTime >= b.startTime && currentTime < b.endTime && b.isEnabled)
\* A slip: the beat found whether it is enabled or not
FindCurrentBeat_AnyBeat(list, currentTime) ==
    LET at == {i \in 1..Len(list) : /\ RLeq(list[i].startTime, currentTime)
                                    /\ RLess(currentTime, list[i].endTime)}
    IN  IF at = {} THEN 0 ELSE CHOOSE i \in at : \A j \in at : i <= j

\* beats.find(b => currentTime >= b.startTime && currentTime < b.endTime && b.isEnabled),
\* as the index of the beat found, 0 for undefined
FindCurrentBeat(list, currentTime) ==
    LET at == {i \in 1..Len(list) : /\ RLeq(list[i].startTime, currentTime)
                                    /\ RLess(currentTime, list[i].endTime)
                                    /\ list[i].isEnabled}
    IN  IF at = {} THEN 0 ELSE CHOOSE i \in at : \A j \in at : i <= j

\* renderFrame: what is drawn at currentTime; throws tells whether drawImage
\* of an image in the broken state throws
ExportFrame(list, currentTime, cache, throws) ==
    LET k == FindCurrentBeat(list, currentTime)
        isSplit == k # 0 /\ list[k].overlayType = SPLIT
        splitHPercent == IF k # 0 /\ list[k].bRollSettings.height # 0
                         THEN list[k].bRollSettings.height ELSE 50
        aRollOffsetY == IF k # 0 /\ list[k].bRollSettings.aRollOffsetY # Unset
                        THEN list[k].bRollSettings.aRollOffsetY ELSE 50
        img == IF k # 0 THEN list[k].bRollImage ELSE Undefined
        usable == img # Undefined /\ cache[img] = "loaded"
        broken == img # Undefined /\ cache[img] = "broken"
    IN  [ drawn |-> TRUE,
          aRoll |-> IF isSplit THEN "crop" ELSE "contain",
          aRollTop |-> IF isSplit THEN splitHPercent ELSE 0,
          aRollOffsetY |-> IF isSplit THEN aRollOffsetY ELSE Unset,
          divider |-> isSplit,
          bRoll |-> IF usable THEN img ELSE Undefined,
          bRollHeight |-> IF ~ usable THEN 0 ELSE IF isSplit THEN splitHPercent ELSE 100,
          thrown |-> broken /\ throws ]

\* A slip: the pan of the preview taken as 0 where none is set
PreviewFrame_PanTop(list, currentTime) ==
    LET k == FindCurrentBeat(list, currentTime)
        isSplitMode == k # 0 /\ list[k].isEnabled /\ list[k].overlayType = SPLIT
        splitHeight == IF k # 0 /\ list[k].bRollSettings.height # 0
                       THEN list[k].bRollSettings.height ELSE 50
        aRollOffsetY == IF k # 0 /\ list[k].bRollSettings.aRollOffsetY # Unset
                        THEN list[k].bRollSettings.aRollOffsetY ELSE 0
        img == IF k # 0 /\ list[k].isEnabled THEN list[k].bRollImage ELSE Undefined
    IN  [ aRoll |-> IF isSplitMode THEN "crop" ELSE "contain",
          aRollTop |-> IF isSplitMode THEN splitHeight ELSE 0,
          aRollOffsetY |-> IF isSplitMode THEN aRollOffsetY ELSE Unset,
          divider |-> isSplitMode,
          bRoll |-> img,
          bRollHeight |-> IF isSplitMode THEN splitHeight
                          ELSE IF img # Undefined THEN 100 ELSE 0 ]

\* VideoComposer: what the preview shows at currentTime
PreviewFrame(list, currentTime) ==
    LET k == FindCurrentBeat(list, currentTime)
        isSplitMode == k # 0 /\ list[k].isEnabled /\ list[k].overlayType = SPLIT
        splitHeight == IF k # 0 /\ list[k].bRollSettings.height # 0
                       THEN list[k].bRollSettings.height ELSE 50
        aRollOffsetY == IF k # 0 /\ list[k].bRollSettings.aRollOffsetY # Unset
                        THEN list[k].bRollSettings.aRollOffsetY ELSE 50
        img == IF k # 0 /\ list[k].isEnabled THEN list[k].bRollImage ELSE Undefined
    IN  [ aRoll |-> IF isSplitMode THEN "crop" ELSE "contain",
          aRollTop |-> IF isSplitMode THEN splitHeight ELSE 0,
          aRollOffsetY |-> IF isSplitMode THEN aRollOffsetY ELSE Unset,
          divider |-> isSplitMode,
          bRoll |-> img,
          bRollHeight |-> IF isSplitMode THEN splitHeight
                          ELSE IF img # Undefined THEN 100 ELSE 0 ]

\* A slip: the cap of 0.99 left out
FrameProgress_NoCap(currentTime, duration) == Norm(currentTime, duration)

\* Math.min(0.99, currentTime / video.duration)
FrameProgress(currentTime, duration) == RMin(<<99, 100>>, Norm(currentTime, duration))

\* A slip: an image counts as ready only when it has loaded
ImageSettled_Loaded(state) == state = "loaded"

\* img.onload = res; img.onerror = res
ImageSettled(state) == state \in {"loaded", "broken"}

\* A slip: renderFrame goes on whatever the state of the recorder
RecorderInactive_Never(recorder) == FALSE

\* mediaRecorder.state === 'inactive'
RecorderInactive(recorder) == recorder.state = "inactive"

\* imageCache[url]: the Image created last for the url
CacheState(images, url) ==
    LET at == {i \in 1..Len(images) : images[i].url = url}
    IN  images[CHOOSE i \in at : \A j \in at : j <= i].state

ImageCacheOf(images) ==
    [u \in {images[i].url : i \in 1..Len(images)} |-> CacheState(images, u)]

\* renderVideoToBlob is called: the video element is created and load() called
RenderVideoToBlobCalled ==
    /\ pc = "idle"
    /\ \E list \in ExportInputs : exportBeats' = list
    /\ \E callback \in {"video", "animation"} :
          video' = [video EXCEPT !.created = TRUE, !.frameCallback = callback]
    /\ promise' = "pending"
    /\ pc' = "metadata"
    /\ UNCHANGED <<canvas, audioCtx, mediaRecorder, imageCache, frameRequested,
                   lastFrame, reports>>

\* renderVideoToBlob, called on its own
RenderVideoToBlob ==
    /\ RenderVideoToBlobCalled
    /\ UNCHANGED notExportVars

\* video.onerror
VideoOnError ==
    /\ video.created
    /\ ~ video.error
    /\ ~ video.ended
    /\ video' = [video EXCEPT !.error = TRUE]
    /\ promise' = Settle(promise, "rejected")
    /\ UNCHANGED <<exportBeats, pc, canvas, audioCtx, mediaRecorder, imageCache,
                   frameRequested, lastFrame, reports>>
    /\ UNCHANGED notExportVars

\* video.onloadedmetadata, and the executor up to the await of the images:
\* canvas, audio graph, recorder, handlers, one Image for every unique url.
\* getContext may return null, and the constructor of the recorder may throw,
\* which leaves the promise as it is
OnLoadedMetadata ==
    /\ pc = "metadata"
    /\ ~ video.error
    /\ \E duration \in {NaN, 0, MaxDuration} :
          video' = [video EXCEPT !.duration = duration]
    /\ canvas' = "created"
    /\ \E setup \in {"ok", "no context", "throws"} :
          \/ /\ setup = "ok"
             /\ audioCtx' = [state |-> "running", source |-> "connected"]
             /\ mediaRecorder' = [mediaRecorder EXCEPT !.state = "inactive"]
             /\ imageCache' = [i \in 1..Len(UniqueImages(exportBeats)) |->
                                  [url |-> UniqueImages(exportBeats)[i], state |-> "loading"]]
             /\ pc' = "preload"
             /\ promise' = promise
          \/ /\ setup = "no context"
             /\ promise' = Settle(promise, "rejected")
             /\ pc' = "returned"
             /\ UNCHANGED <<audioCtx, mediaRecorder, imageCache>>
          \/ /\ setup = "throws"
             /\ audioCtx' = [state |-> "running", source |-> "connected"]
             /\ pc' = "thrown"
             /\ UNCHANGED <<promise, mediaRecorder, imageCache>>
    /\ UNCHANGED <<exportBeats, frameRequested, lastFrame, reports>>
    /\ UNCHANGED notExportVars

\* img.onload
ImageOnLoad ==
    /\ \E i \in 1..Len(imageCache) :
          /\ imageCache[i].state = "loading"
          /\ imageCache' = [imageCache EXCEPT ![i].state = "loaded"]
    /\ UNCHANGED <<exportBeats, pc, promise, video, canvas, audioCtx, mediaRecorder,
                   frameRequested, lastFrame, reports>>
    /\ UNCHANGED notExportVars

\* img.onerror
ImageOnError ==
    /\ \E i \in 1..Len(imageCache) :
          /\ imageCache[i].state = "loading"
          /\ imageCache' = [imageCache EXCEPT ![i].state = "broken"]
    /\ UNCHANGED <<exportBeats, pc, promise, video, canvas, audioCtx, mediaRecorder,
                   frameRequested, lastFrame, reports>>
    /\ UNCHANGED notExportVars

\* Promise.all of the images is through: mediaRecorder.start() and video.play(),
\* which the browser lets start or not
StartEncoding ==
    /\ pc = "preload"
    /\ \A i \in 1..Len(imageCache) : ImageSettled(imageCache[i].state)
    /\ mediaRecorder' = [mediaRecorder EXCEPT !.state = "recording"]
    /\ \E allowed \in BOOLEAN :
          video' = [video EXCEPT !.paused = ~ (allowed /\ ~ video.error)]
    /\ pc' = "play"
    /\ UNCHANGED <<exportBeats, promise, canvas, audioCtx, imageCache, frameRequested,
                   lastFrame, reports>>
    /\ UNCHANGED notExportVars

\* await video.play() returns: renderFrame is registered
PlayResolved ==
    /\ pc = "play"
    /\ ~ video.paused \/ video.ended
    /\ frameRequested' = TRUE
    /\ pc' = "loop"
    /\ UNCHANGED <<exportBeats, promise, video, canvas, audioCtx, mediaRecorder,
                   imageCache, lastFrame, reports>>
    /\ UNCHANGED notExportVars

\* await video.play() throws
PlayRejected ==
    /\ pc = "play"
    /\ (video.paused /\ ~ video.ended) \/ video.error
    /\ promise' = Settle(promise, "rejected")
    /\ pc' = "returned"
    /\ UNCHANGED <<exportBeats, video, canvas, audioCtx, mediaRecorder, imageCache,
                   frameRequested, lastFrame, reports>>
    /\ UNCHANGED notExportVars

\* The playback position moves on
VideoTimeAdvances ==
    /\ ~ video.paused /\ ~ video.ended /\ ~ video.error
    /\ video.currentTime < (IF video.duration = NaN THEN MaxDuration ELSE video.duration)
    /\ video' = [video EXCEPT !.currentTime = @ + 1]
    /\ UNCHANGED <<exportBeats, pc, promise, canvas, audioCtx, mediaRecorder,
                   imageCache, frameRequested, lastFrame, reports>>
    /\ UNCHANGED notExportVars

\* The playback position reaches the end of the media: video.ended is true
VideoReachesEnd ==
    /\ ~ video.paused /\ ~ video.ended /\ ~ video.error
    /\ video.duration # NaN
    /\ video.currentTime = video.duration
    /\ video' = [video EXCEPT !.ended = TRUE]
    /\ UNCHANGED <<exportBeats, pc, promise, canvas, audioCtx, mediaRecorder,
                   imageCache, frameRequested, lastFrame, reports>>
    /\ UNCHANGED notExportVars

\* video.onended
VideoOnEnded ==
    /\ video.ended
    /\ ~ video.endedFired
    /\ video' = [video EXCEPT !.paused = TRUE, !.endedFired = TRUE]
    /\ IF ~ RecorderInactive(mediaRecorder)
       THEN /\ mediaRecorder' = [state |-> "inactive", stopCalled |-> TRUE,
                                 stopEvent |-> TRUE]
            /\ reports' = Append(reports, [value |-> Num(1), by |-> "onended",
                                           currentTime |-> video.currentTime])
       ELSE UNCHANGED <<mediaRecorder, reports>>
    /\ UNCHANGED <<exportBeats, pc, promise, canvas, audioCtx, imageCache,
                   frameRequested, lastFrame>>
    /\ UNCHANGED notExportVars

\* mediaRecorder.onstop
MediaRecorderOnStop ==
    /\ mediaRecorder.stopEvent
    /\ mediaRecorder' = [mediaRecorder EXCEPT !.stopEvent = FALSE]
    /\ audioCtx' = [state |-> "closed", source |-> "disconnected"]
    /\ video' = [video EXCEPT !.removed = TRUE]
    /\ canvas' = "removed"
    /\ promise' = Settle(promise, "resolved")
    /\ UNCHANGED <<exportBeats, pc, imageCache, frameRequested, lastFrame, reports>>
    /\ UNCHANGED notExportVars

\* renderFrame, called back for a frame of the video or for an animation frame
RenderFrame ==
    /\ frameRequested
    /\ video.frameCallback = "video" => ~ video.paused /\ ~ video.error
    /\ IF RecorderInactive(mediaRecorder)
       THEN /\ frameRequested' = FALSE
            /\ UNCHANGED <<lastFrame, reports>>
       ELSE IF video.paused /\ ~ video.ended
       THEN UNCHANGED <<frameRequested, lastFrame, reports>>
       ELSE \E throws \in BOOLEAN :
            LET frame == ExportFrame(exportBeats, Num(video.currentTime),
                                     ImageCacheOf(imageCache), throws)
            IN  /\ IF video.duration # NaN /\ video.duration > 0
                   THEN /\ Len(reports) < MaxReports
                        /\ reports' = Append(reports,
                              [value |-> FrameProgress(video.currentTime, video.duration),
                               by |-> "renderFrame",
                               currentTime |-> video.currentTime])
                   ELSE reports' = reports
                /\ lastFrame' = frame @@
                                [recorder |-> mediaRecorder.state,
                                 time |-> video.currentTime]
                /\ frameRequested' = ~ frame.thrown
    /\ UNCHANGED <<exportBeats, pc, promise, video, canvas, audioCtx, mediaRecorder,
                   imageCache>>
    /\ UNCHANGED notExportVars

NextExport ==
    \/ RenderVideoToBlob
    \/ VideoOnError
    \/ OnLoadedMetadata
    \/ ImageOnLoad
    \/ ImageOnError
    \/ StartEncoding
    \/ PlayResolved
    \/ PlayRejected
    \/ VideoTimeAdvances
    \/ VideoReachesEnd
    \/ VideoOnEnded
    \/ MediaRecorderOnStop
    \/ RenderFrame

SpecExport == Init /\ [][NextExport]_vars

\* What handleExportVideo and handleGenerateVeo leave alone
notExportUiVars == <<beats, now, nextImage, isSelectionMode, selectedBeatIds, mergeCalls,
                     last, steps, retryVars, bulkRuns, imageVars, audio, crop, wav>>

\* handleGenerateVeo, from the answer of generateVeoVideo on: the project has
\* an A-roll video
GenerateVeoAnswered ==
    /\ aRoll.url = Undefined
    /\ aRoll' = [aRoll EXCEPT !.url = ObjectUrl(MaxUploads + 1)]
    /\ status' = Status("Video generated!", 0)
    /\ UNCHANGED <<exportVars, exportUi>>
    /\ UNCHANGED notExportUiVars

\* handleExportVideo, up to the await of renderVideoToBlob; the button is
\* disabled without a video and during an export or an analysis
HandleExportVideo ==
    /\ aRoll.url # Undefined
    /\ ~ exportUi.isExporting
    /\ ~ aRoll.isAnalyzing
    /\ exportUi' = [isExporting |-> TRUE, resetAt |-> Unset]
    /\ RenderVideoToBlobCalled
    /\ UNCHANGED <<status, aRoll>>
    /\ UNCHANGED notExportUiVars

\* handleExportVideo, from the settling of the promise on: the download or
\* the error, then the finally block
ExportVideoSettled ==
    /\ exportUi.isExporting
    /\ promise \in {"resolved", "rejected"}
    /\ status' = IF promise = "resolved" THEN Status("Video exported successfully!", 0)
                 ELSE status
    /\ exportUi' = [isExporting |-> FALSE, resetAt |-> Len(reports)]
    /\ UNCHANGED <<exportVars, aRoll>>
    /\ UNCHANGED notExportUiVars

\* The events the browser owes the export: the video loads or fails to; the
\* images load or fail to; play() answers; a playback that has started goes
\* on to its end or fails
MediaLoads == OnLoadedMetadata \/ (VideoOnError /\ pc = "metadata")
ImageLoads == ImageOnLoad \/ ImageOnError
PlayAnswers == PlayResolved \/ PlayRejected
PlaybackGoesOn ==
    \/ VideoTimeAdvances
    \/ VideoReachesEnd
    \/ (VideoOnError /\ pc \in {"play", "loop"} /\ ~ video.paused)

NextExportUi ==
    \/ GenerateVeoAnswered
    \/ HandleExportVideo
    \/ ExportVideoSettled
    \/ VideoOnError
    \/ OnLoadedMetadata
    \/ ImageOnLoad
    \/ ImageOnError
    \/ StartEncoding
    \/ PlayResolved
    \/ PlayRejected
    \/ VideoTimeAdvances
    \/ VideoReachesEnd
    \/ VideoOnEnded
    \/ MediaRecorderOnStop
    \/ RenderFrame

SpecExportFair ==
    /\ Init
    /\ [][NextExportUi]_vars
    /\ WF_vars(MediaLoads)
    /\ WF_vars(ImageLoads)
    /\ WF_vars(StartEncoding)
    /\ WF_vars(PlayAnswers)
    /\ WF_vars(PlaybackGoesOn)
    /\ WF_vars(VideoOnEnded)
    /\ WF_vars(MediaRecorderOnStop)
    /\ WF_vars(ExportVideoSettled)

\* Preview and export frames: analysis, uploaded images and the beat rows
NextFrames ==
    \/ HandleAnalyzeBeats
    \/ HandleUploadImage
    \/ UpdateBeat

SpecFrames == Init /\ [][NextFrames]_vars

---------------------------------------------------------------------------
(* Bulk generation: handleBulkGenerate *)

\* What bulk generation leaves alone
notBulkVars == <<now, nextImage, isSelectionMode, selectedBeatIds, mergeCalls, last,
                 steps, exportVars, retryVars, imageVars, mediaVars>>

\* handleBulkGenerate: the update of the list once an image is there; with one
\* image asked for per beat j is 0
BulkGeneratedInto(list, beatId, img) ==
    [k \in 1..Len(list) |->
        IF list[k].id = beatId
        THEN LET b == list[k]
                 isFirst == b.bRollImage = Undefined /\ Len(b.bRollOptions) = 0
             IN  [b EXCEPT !.bRollImage = IF isFirst THEN img
                                          ELSE IF b.bRollImage # Undefined
                                               THEN b.bRollImage ELSE img,
                           !.bRollOptions = Append(b.bRollOptions, img)]
        ELSE list[k]]

BulkStatus(i, n) == Status("Generating image 1/1 for beat i/n...", <<i, n>>)

\* handleBulkGenerate is called, the Generate All button pressed: the loop sets
\* its first timer of 3000 ms
HandleBulkGenerate ==
    /\ Len(bulkRuns) < MaxBulkRuns
    /\ Len(beats) # 0
    /\ bulkRuns' = Append(bulkRuns, [beatsToProcess |-> beats, i |-> 1, pc |-> "delay"])
    /\ status' = BulkStatus(1, Len(beats))
    /\ UNCHANGED beats
    /\ UNCHANGED notBulkVars

\* The timer of 3000 ms of a loop fires: generateBRollImage is called
BulkDelayElapsed ==
    /\ \E r \in 1..Len(bulkRuns) :
          /\ bulkRuns[r].pc = "delay"
          /\ bulkRuns' = [bulkRuns EXCEPT ![r].pc = "request"]
    /\ UNCHANGED <<beats, status>>
    /\ UNCHANGED notBulkVars

\* generateBRollImage of a loop returns an image or throws; the loop goes on to
\* the next beat or ends
BulkRequestDone ==
    /\ \E r \in 1..Len(bulkRuns) :
       \E img \in GeneratedImages \cup {Failure} :
          LET run == bulkRuns[r]
              beat == run.beatsToProcess[run.i]
              n == Len(run.beatsToProcess)
          IN  /\ run.pc = "request"
              /\ beats' = IF img = Failure THEN beats
                          ELSE BulkGeneratedInto(beats, beat.id, img)
              /\ IF run.i < n
                 THEN /\ bulkRuns' = [bulkRuns EXCEPT ![r].i = run.i + 1, ![r].pc = "delay"]
                      /\ status' = BulkStatus(run.i + 1, n)
                 ELSE /\ bulkRuns' = [bulkRuns EXCEPT ![r].pc = "done"]
                      /\ status' = Status("Batch generation complete.", 0)
    /\ UNCHANGED notBulkVars

NextBulk ==
    \/ HandleAnalyzeBeats
    \/ HandleBulkGenerate
    \/ BulkDelayElapsed
    \/ BulkRequestDone

SpecBulk == Init /\ [][NextBulk]_vars

---------------------------------------------------------------------------
(* Requests to the service: runWithRetry *)

\* runWithRetry(fn, retries = 5, delay = 4000)
DefaultRetries == 5
DefaultDelay == 4000

\* What the wrapped request may throw; texts are lists of words
Errors ==
    { [status |-> 429, name |-> <<"ApiError">>, message |-> <<"Too Many Requests">>],
      [status |-> Undefined, name |-> <<"Error">>, message |-> <<"got", "429">>],
      [status |-> Undefined, name |-> <<"Error">>, message |-> <<"quota", "exceeded">>],
      [status |-> 500, name |-> <<"ApiError">>, message |-> <<"RESOURCE_EXHAUSTED">>],
      [status |-> 500, name |-> <<"ApiError">>, message |-> <<"internal">>],
      [status |-> Undefined, name |-> <<"Error">>, message |-> <<>>],
      [status |-> Undefined, name |-> <<"Error">>, message |-> <<"No image generated">>] }

\* error.toString() of an Error
ErrorToString(error) ==
    IF error.message = <<>> THEN error.name
    ELSE error.name \o <<": ">> \o error.message

\* A slip: every error counts as a quota error
IsQuotaError_Any(error) == TRUE

\* isQuotaError
IsQuotaError(error) ==
    \/ error.status = 429
    \/ error.message # <<>> /\ Includes(error.message, "429")
    \/ Includes(ErrorToString(error), "quota")
    \/ Includes(ErrorToString(error), "RESOURCE_EXHAUSTED")

\* runWithRetry is called with the defaults
RunWithRetry ==
    /\ retry.pc = "idle"
    /\ \E fn \in {"generateSpeech", "analyzeBeats", "generateBRollImage"} :
          retry' = [retry EXCEPT !.pc = "calling", !.fn = fn,
                                 !.retries = DefaultRetries, !.delay = DefaultDelay]
    /\ UNCHANGED notRetryVars

\* await fn() returns
FnReturns ==
    /\ retry.pc = "calling"
    /\ \E result \in GeneratedImages :
          retry' = [retry EXCEPT !.pc = "returned", !.calls = @ + 1, !.result = result]
    /\ UNCHANGED notRetryVars

\* await fn() throws: a timer of delay ms is set, or the error thrown on
FnThrows ==
    /\ retry.pc = "calling"
    /\ \E error \in Errors :
          retry' = IF retry.retries > 0 /\ IsQuotaError(error)
                   THEN [retry EXCEPT !.pc = "waiting", !.calls = @ + 1, !.error = error]
                   ELSE [retry EXCEPT !.pc = "thrown", !.calls = @ + 1, !.error = error,
                                      !.thrown = error]
    /\ UNCHANGED notRetryVars

\* The timer fires: runWithRetry(fn, retries - 1, delay * 2)
RetryTimerFires ==
    /\ retry.pc = "waiting"
    /\ retry' = [retry EXCEPT !.pc = "calling", !.retries = @ - 1, !.delay = @ * 2,
                              !.waits = Append(@, retry.delay)]
    /\ UNCHANGED notRetryVars

NextRetry ==
    \/ RunWithRetry
    \/ FnReturns
    \/ FnThrows
    \/ RetryTimerFires

SpecRetry == Init /\ [][NextRetry]_vars

\* The request settles and the timer fires
SpecRetryFair == SpecRetry /\ WF_vars(FnReturns \/ FnThrows) /\ WF_vars(RetryTimerFires)

---------------------------------------------------------------------------
(* Image requests of single beats: handleRegenerateImage and *)
(* handleGenerateImageFromPrompt, from the call to the last answer *)

\* What the image requests leave alone
notImageVars == <<now, nextImage, isSelectionMode, selectedBeatIds, mergeCalls, last,
                  exportVars, retryVars, bulkRuns, mediaVars>>

Without(seq, r) == SubSeq(seq, 1, r - 1) \o SubSeq(seq, r + 1, Len(seq))

\* The images the requests under way may still bring
RECURSIVE PendingImages(_)
PendingImages(requests) ==
    IF requests = <<>> THEN 0
    ELSE (Head(requests).count - Head(requests).i) + PendingImages(Tail(requests))

\* A request as it goes out: the beat as the caller holds it, and the list
\* before the operation (pre) and as the operation last saw or left it (mine)
ImageRequest(op, beat, prompt, count, list) ==
    [op |-> op, beatId |-> beat.id, options |-> beat.bRollOptions, prompt |-> prompt,
     count |-> count, i |-> 0, pre |-> list, mine |-> list, alone |-> TRUE]

ImageDone(op, outcome, error, req) ==
    [op |-> op, outcome |-> outcome, error |-> error, beatId |-> req.beatId]

\* handleRegenerateImage: the update of the list once the image is there,
\* written from the gallery the caller held when the request went out
RegeneratedInto(list, req, img) ==
    UpdateBeatList(list, req.beatId,
                   [bRollImage |-> img, bRollOptions |-> Append(req.options, img)])

\* handleRegenerateImage(beat) is called
HandleRegenerateImage ==
    /\ steps < MaxSteps
    /\ Len(imageRequests) < MaxRequests
    /\ GalleryTotal(beats) + PendingImages(imageRequests) < MaxImages
    /\ \E k \in 1..Len(beats) :
          imageRequests' = Append(imageRequests,
              ImageRequest("regenerate", beats[k], beats[k].visualPrompt, 1, beats))
    /\ status' = Status("Regenerating image for beat...", 0)
    /\ steps' = steps + 1
    /\ UNCHANGED <<beats, imageDone>>
    /\ UNCHANGED notImageVars

\* generateBRollImage of handleRegenerateImage returns or throws
RegenerateImageDone ==
    /\ \E r \in 1..Len(imageRequests) :
       \E img \in GeneratedImages \cup {Failure} :
          LET req == imageRequests[r]
          IN  /\ req.op = "regenerate"
              /\ imageRequests' = Without(imageRequests, r)
              /\ IF img = Failure
                 THEN /\ imageDone' = ImageDone("regenerate", "failed",
                                                "Failed to regenerate image", req)
                      /\ UNCHANGED <<beats, status>>
                 ELSE /\ beats' = RegeneratedInto(beats, req, img)
                      /\ status' = Status("Image updated.", 0)
                      /\ imageDone' = ImageDone("regenerate", "done", "", req)
    /\ UNCHANGED steps
    /\ UNCHANGED notImageVars

\* handleGenerateImageFromPrompt(beatId, prompt) is called, for the number of
\* versions the settings ask for: the first request goes out
GenerateImageFromPromptCalled ==
    /\ steps < MaxSteps
    /\ Len(imageRequests) < MaxRequests
    /\ \E k \in 1..Len(beats) :
       \E count \in 1..MaxVersions :
          /\ GalleryTotal(beats) + PendingImages(imageRequests) + count <= MaxImages
          /\ imageRequests' = Append(imageRequests,
                ImageRequest("prompt", beats[k], Prompt("input", <<"p">>), count, beats))
          /\ status' = Status("Generating versions...", count)
    /\ steps' = steps + 1
    /\ UNCHANGED <<beats, imageDone>>
    /\ UNCHANGED notImageVars

\* generateBRollImage of handleGenerateImageFromPrompt returns, and the next
\* request goes out if versions are left, or it throws, which ends the loop
GenerateImageFromPromptAnswered ==
    /\ \E r \in 1..Len(imageRequests) :
       \E img \in GeneratedImages \cup {Failure} :
          LET req == imageRequests[r]
              alone == req.alone /\ beats = req.mine
          IN  /\ req.op = "prompt"
              /\ IF img = Failure
                 THEN /\ imageRequests' = Without(imageRequests, r)
                      /\ imageDone' = ImageDone("prompt", "failed",
                                                "Failed to generate image", req)
                      /\ status' = Status("", 0)
                      /\ beats' = beats
                 ELSE /\ beats' = GeneratedInto(beats, req.beatId, img, req.prompt)
                      /\ IF req.i + 1 < req.count
                         THEN /\ imageRequests' =
                                    [imageRequests EXCEPT ![r].i = req.i + 1,
                                                          ![r].mine = beats',
                                                          ![r].alone = alone]
                              /\ status' = Status("Generating version i/count...",
                                                  <<req.i + 2, req.count>>)
                              /\ imageDone' = imageDone
                         ELSE /\ imageRequests' = Without(imageRequests, r)
                              /\ status' = Status("Generated images.", req.count)
                              /\ imageDone' = ImageDone("prompt", "done", "", req)
    /\ UNCHANGED steps
    /\ UNCHANGED notImageVars

\* The galleries under uploads, selections and image requests
NextImages ==
    \/ HandleAnalyzeBeats
    \/ HandleUploadImage
    \/ UpdateBeat
    \/ HandleRegenerateImage
    \/ RegenerateImageDone
    \/ GenerateImageFromPromptCalled
    \/ GenerateImageFromPromptAnswered

SpecImages == Init /\ [][NextImages]_vars

\* Image requests whose beat is split or merged before the answer is there
NextLate ==
    \/ HandleAnalyzeBeats
    \/ HandleSplitBeat
    \/ HandleMergeBeats
    \/ GenerateImageFromPromptCalled
    \/ GenerateImageFromPromptAnswered

SpecLate == Init /\ [][NextLate]_vars

\* The selected image of the beats under images, splits and selections
NextSelected ==
    \/ HandleAnalyzeBeats
    \/ HandleGenerateImageFromPrompt
    \/ HandleSplitBeat
    \/ UpdateBeat

SpecSelected == Init /\ [][NextSelected]_vars

---------------------------------------------------------------------------
(* The A-roll video: handleUploadARoll and handleRemoveARoll *)

\* What the handlers of the video leave alone
notVideoVars == <<now, nextImage, isSelectionMode, selectedBeatIds, mergeCalls, last, steps,
                  exportVars, retryVars, bulkRuns, imageVars, exportUi, audio, crop, wav>>

\* What analyzeAudioContent may read in the answer of the service for a video
VideoAnswers(url) ==
    { [transcript |-> <<"v", ToString(url)>>,
       beats |-> << [textSegment |-> <<"a", ToString(url)>>, overlayType |-> FULL,
                     startTime |-> Num(0), endTime |-> Num(1)],
                    [textSegment |-> <<"b">>, overlayType |-> SPLIT,
                     startTime |-> Num(1), endTime |-> Num(2)] >>],
      [transcript |-> <<"v", ToString(url)>>,
       beats |-> << [textSegment |-> <<"a", ToString(url)>>, overlayType |-> SPLIT,
                     startTime |-> Num(0), endTime |-> Num(2)] >>] }

\* analyzeAudioContent: the beats made of the answer
VideoBeats(items, t) ==
    [index \in 1..Len(items) |->
        [AnalyzedBeat(items[index], index - 1, t) EXCEPT
            !.id = BeatId("beat-vid", t, index - 1),
            !.startTime = items[index].startTime,
            !.endTime = items[index].endTime,
            !.visualPrompt = Prompt("service", items[index].textSegment)]]

\* handleUploadARoll, up to the first await
HandleUploadARoll ==
    /\ aRoll.uploads < MaxUploads
    /\ LET url == ObjectUrl(aRoll.uploads + 1)
       IN  aRoll' = [aRoll EXCEPT !.url = url,
                                  !.transcript = <<>>,
                                  !.isAnalyzing = TRUE,
                                  !.analyses = Append(@, url),
                                  !.uploads = @ + 1]
    /\ beats' = <<>>
    /\ status' = Status("Extracting audio from video...", 0)
    /\ UNCHANGED notVideoVars

\* handleUploadARoll, from the answer of analyzeAudioContent on, or from the
\* error of extractAudioFromVideo or analyzeAudioContent on
UploadARollAnalyzed ==
    /\ \E r \in 1..Len(aRoll.analyses) :
       \E failed \in BOOLEAN :
       \E answer \in VideoAnswers(aRoll.analyses[r]) :
          IF failed
          THEN /\ aRoll' = [aRoll EXCEPT !.isAnalyzing = FALSE,
                                         !.analyses = Without(@, r)]
               /\ status' = Status("Analysis failed.", 0)
               /\ beats' = beats
          ELSE /\ aRoll' = [aRoll EXCEPT !.transcript = answer.transcript,
                                         !.isAnalyzing = FALSE,
                                         !.analyses = Without(@, r)]
               /\ beats' = VideoBeats(answer.beats, now)
               /\ status' = Status("Video uploaded and analyzed. Ready to generate visuals.", 0)
    /\ UNCHANGED notVideoVars

\* handleRemoveARoll
HandleRemoveARoll ==
    /\ aRoll.url # Undefined
    /\ aRoll' = [aRoll EXCEPT !.url = Undefined, !.transcript = <<>>]
    /\ beats' = <<>>
    /\ status' = Status("Video removed.", 0)
    /\ UNCHANGED notVideoVars

NextVideo ==
    \/ Tick
    \/ HandleUploadARoll
    \/ UploadARollAnalyzed
    \/ HandleRemoveARoll

SpecVideo == Init /\ [][NextVideo]_vars

---------------------------------------------------------------------------
(* Audio contexts: extractAudioFromVideo, mergeAudioClips, generateSpeech *)

notAudioVars == <<appVars, exportVars, retryVars, bulkRuns, imageVars,
                  aRoll, exportUi, crop, wav>>

\* A slip: the context closed at the end of the try block, not in a finally
ContextsAfterFinally_OnSuccess(open, outcome) ==
    IF outcome = "returned" THEN open - 1 ELSE open

\* finally { if (ctx.state !== 'closed') await ctx.close(); }
ContextsAfterFinally(open, outcome) == open - 1

\* An audio operation is called. mergeAudioClips makes its context at once,
\* the others first await the file's bytes or the answer of the service
AudioCalled ==
    /\ audio.pc = "idle"
    /\ audio.ops < MaxAudioOps
    /\ \E op \in {"extractAudioFromVideo", "mergeAudioClips", "generateSpeech"} :
       \E clips \in 0..MaxClips :
          /\ (op # "mergeAudioClips") => clips = 1
          /\ audio' = [op |-> op,
                       pc |-> IF op = "mergeAudioClips" THEN "try" ELSE "await",
                       ctx |-> IF op = "mergeAudioClips" THEN "running" ELSE "none",
                       open |-> IF op = "mergeAudioClips" THEN audio.open + 1 ELSE audio.open,
                       todo |-> clips, attempt |-> 0, ops |-> audio.ops + 1,
                       outcome |-> "none"]
    /\ UNCHANGED notAudioVars

\* What runWithRetry does with an outcome of the function it was given
AfterAttempt(a, outcome) ==
    IF a.op = "generateSpeech" /\ outcome = "quota" /\ a.attempt < DefaultRetries
    THEN [a EXCEPT !.pc = "await", !.attempt = @ + 1, !.outcome = "none", !.todo = 1]
    ELSE [a EXCEPT !.pc = "idle",
                   !.outcome = IF outcome = "returned" THEN "returned" ELSE "thrown"]

\* file.arrayBuffer() or generateContent settles: on success the context is
\* made, on failure the operation (or the attempt) ends without one
AudioAwaited ==
    /\ audio.pc = "await"
    /\ \E outcome \in {"ok", "quota", "error"} :
          /\ (audio.op = "extractAudioFromVideo") => outcome # "quota"
          /\ audio' = IF outcome = "ok"
                      THEN [audio EXCEPT !.pc = "try", !.ctx = "running", !.open = @ + 1]
                      ELSE AfterAttempt(audio, outcome)
    /\ UNCHANGED notAudioVars

\* One step inside the try block: a clip is fetched and decoded, the audio is
\* decoded, the result is encoded; each may throw, and mergeAudioClips throws
\* when it has no clip
AudioTryStep ==
    /\ audio.pc = "try"
    /\ \E outcome \in {"ok", "quota", "error"} :
          /\ (audio.todo = 0) => outcome = "error"
          /\ audio' = IF outcome = "ok" /\ audio.todo > 1
                      THEN [audio EXCEPT !.todo = @ - 1]
                      ELSE [audio EXCEPT !.pc = "finally",
                                         !.outcome = IF outcome = "ok" THEN "returned"
                                                     ELSE outcome]
    /\ UNCHANGED notAudioVars

\* The finally block, and the return or the throw after it
AudioFinally ==
    /\ audio.pc = "finally"
    /\ LET open == IF audio.ctx # "closed"
                   THEN ContextsAfterFinally(audio.open, audio.outcome)
                   ELSE audio.open
       IN  audio' = AfterAttempt([audio EXCEPT !.open = open,
                                               !.ctx = IF open < audio.open
                                                       THEN "closed" ELSE @],
                                 audio.outcome)
    /\ UNCHANGED notAudioVars

NextAudio ==
    \/ AudioCalled
    \/ AudioAwaited
    \/ AudioTryStep
    \/ AudioFinally

SpecAudio == Init /\ [][NextAudio]_vars

---------------------------------------------------------------------------
(* renderFrame: the part of the video drawn into the lower band *)

RMul(x, y) == Norm(x[1] * y[1], x[2] * y[2])
RDiv(x, y) == Norm(x[1] * y[2], x[2] * y[1])

\* The videos, the lower bands of the two canvas sizes and the pans tried
CropInputs ==
    [ sw : {1920, 1080, 1280, 640, 720}, sh : {1080, 1920, 720, 480},
      tw : {1080, 1920}, th : {600, 960, 1344, 540, 324},
      p : {0, 25, 50, 100} ]

\* A slip: the cropped part always centred, the pan left out
CoverCrop_Centred(sw, sh, tw, th, p) ==
    LET videoRatio == Norm(sw, sh)
        targetRatio == Norm(tw, th)
        sH == RDiv(Num(sw), targetRatio)
    IN  IF RLess(targetRatio, videoRatio)
        THEN [sX |-> RDiv(RSub(Num(sw), RMul(Num(sh), targetRatio)), Num(2)),
              sY |-> Num(0), sW |-> RMul(Num(sh), targetRatio), sH |-> Num(sh)]
        ELSE [sX |-> Num(0), sY |-> RDiv(RSub(Num(sh), sH), Num(2)),
              sW |-> Num(sw), sH |-> sH]

\* renderFrame, split mode: the source rectangle of the drawImage call
CoverCrop(sw, sh, tw, th, p) ==
    LET videoRatio == Norm(sw, sh)
        targetRatio == Norm(tw, th)
    IN  IF RLess(targetRatio, videoRatio)
        THEN LET sH == Num(sh)
                 sW == RMul(sH, targetRatio)
             IN  [sX |-> RDiv(RSub(Num(sw), sW), Num(2)), sY |-> Num(0),
                  sW |-> sW, sH |-> sH]
        ELSE LET sW == Num(sw)
                 sH == RDiv(sW, targetRatio)
             IN  [sX |-> Num(0), sY |-> RMul(RSub(Num(sh), sH), Norm(p, 100)),
                  sW |-> sW, sH |-> sH]

\* renderFrame draws the video of a split beat
DrawCrop ==
    /\ \E in \in CropInputs :
          crop' = [pc |-> "drawn", in |-> in,
                   rect |-> CoverCrop(in.sw, in.sh, in.tw, in.th, in.p)]
    /\ UNCHANGED <<appVars, exportVars, retryVars, bulkRuns, imageVars,
                   aRoll, exportUi, audio, wav>>

SpecCrop == Init /\ [][DrawCrop]_vars

---------------------------------------------------------------------------
(* audioBufferToWav: the samples written *)

\* The samples tried: the multiples of 1/SampleSteps from -MaxSample/SampleSteps
\* to MaxSample/SampleSteps, some of them beyond -1 and 1
Samples == {Norm(n, SampleSteps) : n \in (-MaxSample)..MaxSample}

\* x | 0 for a number within the 32-bit range: the fraction is cut off
Trunc(x) == IF x[1] < 0 THEN -((-x[1]) \div x[2]) ELSE x[1] \div x[2]

\* DataView.setInt16: the low 16 bits, read as a signed number
Int16(n) == ((n + 32768) % 65536) - 32768

\* Math.max(-1, Math.min(1, s)), then
\* (0.5 + sample < 0 ? sample * 32768 : sample * 32767) | 0, then setInt16
Quantize(s) ==
    LET sample == RMax(Num(-1), RMin(Num(1), s))
    IN  Int16(Trunc(IF RLess(RAdd(<<1, 2>>, sample), Num(0))
                    THEN RMul(sample, Num(32768))
                    ELSE RMul(sample, Num(32767))))

\* audioBufferToWav writes one sample
WriteSample ==
    /\ \E s \in Samples : wav' = [pc |-> "written", sample |-> s, stored |-> Quantize(s)]
    /\ UNCHANGED <<appVars, exportVars, retryVars, bulkRuns, imageVars,
                   aRoll, exportUi, audio, crop>>

SpecWav == Init /\ [][WriteSample]_vars

---------------------------------------------------------------------------
(* Properties of the beat list *)

\* Each beat starts where the previous one ends
Contiguous(list) ==
    \A i \in 1..(Len(list) - 1) : list[i + 1].startTime = list[i].endTime

\* No two beats share a point in time
NonOverlapping(list) ==
    \A i, j \in 1..Len(list) :
        i < j => \/ RLeq(list[i].endTime, list[j].startTime)
                 \/ RLeq(list[j].endTime, list[i].startTime)

\* Ascending startTime
Ordered(list) ==
    \A i \in 1..(Len(list) - 1) : RLeq(list[i].startTime, list[i + 1].startTime)

\* The enabled beats whose interval [startTime, endTime) holds time
ActiveAt(list, time) ==
    {i \in 1..Len(list) :
        /\ RLeq(list[i].startTime, time)
        /\ RLess(time, list[i].endTime)
        /\ list[i].isEnabled}

Count(list, x) == Cardinality({i \in 1..Len(list) : list[i] = x})

\* Same elements with the same multiplicities
SameBag(l1, l2) ==
    /\ Len(l1) = Len(l2)
    /\ \A i \in 1..Len(l1) : Count(l1, l1[i]) = Count(l2, l1[i])

RemoveAt(list, m) == SubSeq(list, 1, m - 1) \o SubSeq(list, m + 1, Len(list))

RECURSIVE Concat(_)
Concat(texts) == IF texts = <<>> THEN <<>> ELSE Head(texts) \o Concat(Tail(texts))

NoSpaces(text) == SelectSeq(text, LAMBDA c : c # Space)

RECURSIVE RSum(_)
RSum(durations) ==
    IF durations = <<>> THEN Num(0) ELSE RAdd(Head(durations), RSum(Tail(durations)))

Duration(b) == RSub(b.endTime, b.startTime)

---------------------------------------------------------------------------
(* What the last handler was, in terms of its arguments and the list before it *)

SplitRan == last.op = "handleSplitBeat"

\* The split named a beat of the list and a range inside its text
SplitRangeValid ==
    /\ \E i \in 1..Len(last.pre) : last.pre[i].id = last.beatId
    /\ LET B == last.pre[FindIndex(last.pre, last.beatId)]
       IN  /\ 0 <= last.startIdx
           /\ last.startIdx < last.endIdx
           /\ last.endIdx <= Len(B.textSegment)

SplitHappened == SplitRan /\ SplitRangeValid

\* Position and record of the beat that was split, and the beats that replaced it
SplitIndex == FindIndex(last.pre, last.beatId)
SplitOriginal == last.pre[SplitIndex]
SplitCount == Len(beats) - Len(last.pre) + 1
SplitChildren == SubSeq(beats, SplitIndex, SplitIndex + SplitCount - 1)

---------------------------------------------------------------------------
(* Claims *)

\* C1: from a valid beat list, after any sequence of Split and Merge calls
\* (any offsets, any selection of ids, adjacent or not) the intervals of the
\* beat list are contiguous, non-overlapping and in ascending startTime order.
C1_PartitionInvariant ==
    /\ Contiguous(beats)
    /\ NonOverlapping(beats)
    /\ Ordered(beats)

\* C2: for every timestamp there is at most one enabled beat whose interval
\* holds it.  Two intervals that share a point share the later of their two
\* start times, so the timestamps tried are the start times of the list.
C2_AtMostOneActiveBeat ==
    \A i \in 1..Len(beats) :
        Cardinality(ActiveAt(beats, beats[i].startTime)) <= 1

KeptLengths ==
    SelectSeq(<< last.startIdx,
                 last.endIdx - last.startIdx,
                 Len(SplitOriginal.textSegment) - last.endIdx >>,
              LAMBDA l : l > 0)

\* duration = D * l / L, without a division
Proportional(duration, D, l, L) == duration[1] * L * D[2] = D[1] * l * duration[2]

ExampleBeat ==
    [ id |-> FreshBeatId(0, 0),
      startTime |-> Num(0),
      endTime |-> Num(10),
      textSegment |-> <<"A", "B", "C", "D", "E", "F", "G", "H", "I", "J">>,
      visualPrompt |-> Prompt("analysis", <<>>),
      bRollImage |-> Undefined,
      overlayType |-> FULL,
      isEnabled |-> TRUE,
      bRollSettings |-> AnalysisSettings,
      bRollOptions |-> <<>>,
      styleConfig |-> NoStyleConfig ]

ExampleSplit == SplitBeat(<<ExampleBeat>>, ExampleBeat.id, 3, 6, 0)

\* C4: an accepted split of a beat of duration D and text length L gives the
\* beat made from a kept part of l characters the duration D*l/L, and the
\* durations add up to D; a 10-second beat "ABCDEFGHIJ" split at (3,6) gives
\* beats of 3, 3 and 4 seconds with the texts "ABC", "DEF", "GHIJ".
C4_SplitProportionality ==
    /\ SplitHappened =>
          /\ SplitCount = Len(KeptLengths)
          /\ \A k \in 1..SplitCount :
                Proportional(Duration(SplitChildren[k]), Duration(SplitOriginal),
                             KeptLengths[k], Len(SplitOriginal.textSegment))
          /\ RSum([k \in 1..SplitCount |-> Duration(SplitChildren[k])])
                = Duration(SplitOriginal)
    /\ Len(ExampleSplit) = 3
    /\ [k \in 1..3 |-> Duration(ExampleSplit[k])] = <<Num(3), Num(3), Num(4)>>
    /\ [k \in 1..3 |-> ExampleSplit[k].textSegment]
          = << <<"A", "B", "C">>, <<"D", "E", "F">>, <<"G", "H", "I", "J">> >>

\* C4 witness: a 2-second beat of three characters was split in three beats
\* of 2/3 second
C4_Witness ==
    /\ SplitHappened
    /\ SplitCount = 3
    /\ Duration(SplitOriginal) = Num(2)
    /\ \A k \in 1..3 : Duration(SplitChildren[k]) = <<2, 3>>

\* C5: every accepted split replaces the beat by two or three beats: three
\* when 0 < startOffset and endOffset < len, exactly two when startOffset = 0
\* or endOffset = len.
C5_SplitCount ==
    SplitHappened =>
        LET len == Len(SplitOriginal.textSegment)
        IN  /\ SplitCount \in {2, 3}
            /\ (0 < last.startIdx /\ last.endIdx < len) => SplitCount = 3
            /\ (last.startIdx = 0 \/ last.endIdx = len) => SplitCount = 2

\* C6: a split with startOffset < 0, endOffset > len, startOffset >= endOffset
\* or an unknown beat id leaves the beat list exactly as it was.
C6_SplitRejected ==
    (SplitRan /\ ~ SplitRangeValid) => beats = last.pre

\* C6 witness: a split of a beat of the list, with an end offset beyond its
\* text, was asked for
C6_Witness ==
    /\ SplitRan
    /\ SplitIndex # 0
    /\ last.startIdx = 0
    /\ last.endIdx > Len(SplitOriginal.textSegment)
    /\ Len(beats) >= 2

---------------------------------------------------------------------------
(* Merge *)

IdSet == {last.beatIds[i] : i \in 1..Len(last.beatIds)}

\* Positions of the beats a merge selects
SelectedIdx == {i \in 1..Len(last.pre) : last.pre[i].id \in IdSet}

\* The beats a merge does not select, in list order
NonSelected == SelectSeq(last.pre, LAMBDA b : b.id \notin IdSet)

MergeCalled ==
    \/ last.op = "handleMergeBeats"
    \/ last.op = "handleMerge" /\ Len(last.beatIds) >= 2

MergeHappened == MergeCalled /\ Cardinality(SelectedIdx) >= 2

\* Positions of the present list that can hold the merged beat: without it, the
\* list holds the beats that were not selected
MergedPositions ==
    {m \in 1..Len(beats) : SameBag(RemoveAt(beats, m), NonSelected)}

IsMinStart(i) == \A j \in SelectedIdx : RLeq(last.pre[i].startTime, last.pre[j].startTime)
IsMaxEnd(i) == \A j \in SelectedIdx : RLeq(last.pre[j].endTime, last.pre[i].endTime)

\* The orders in which the same ids can be passed
Reorderings(ids) ==
    {[i \in 1..Len(ids) |-> ids[p[i]]] :
        p \in {q \in [1..Len(ids) -> 1..Len(ids)] :
                  \A a, b \in 1..Len(ids) : a # b => q[a] # q[b]}}

\* C7: a merge of two or more beats of the list gives one beat from the
\* smallest startTime to the largest endTime of the selected beats, whatever
\* the order of the ids.
C7_MergeSpan ==
    MergeHappened =>
        /\ MergedPositions # {}
        /\ \A m \in MergedPositions :
              /\ \E i \in SelectedIdx :
                    IsMinStart(i) /\ beats[m].startTime = last.pre[i].startTime
              /\ \E i \in SelectedIdx :
                    IsMaxEnd(i) /\ beats[m].endTime = last.pre[i].endTime
        /\ \A ids \in Reorderings(last.beatIds) :
              MergeBeats(last.pre, ids, last.t) = beats

\* C8: after a merge of k >= 2 beats the list holds every beat that was not
\* selected, unchanged, none of the selected beats and one new beat, so that
\* it is k - 1 shorter, and it is in ascending startTime order.
C8_MergeFrame ==
    MergeHappened =>
        /\ Len(beats) = Len(last.pre) - Cardinality(SelectedIdx) + 1
        /\ MergedPositions # {}
        /\ \A i \in SelectedIdx : Count(beats, last.pre[i]) = 0
        /\ \A m \in MergedPositions : Count(last.pre, beats[m]) = 0
        /\ Ordered(beats)

\* C8 witness: two of three beats were merged, and the third is still there
C8_Witness ==
    /\ MergeHappened
    /\ Cardinality(SelectedIdx) = 2
    /\ Len(last.pre) = 3
    /\ Len(beats) = 2

\* C9: a merge whose ids match fewer than two beats of the list leaves the
\* list as it was, and the Timeline does not call handleMergeBeats while
\* fewer than two ids are selected.
C9_MergeNoop ==
    /\ (last.op = "handleMergeBeats" /\ Cardinality(SelectedIdx) < 2)
          => beats = last.pre
    /\ (last.op = "handleMerge" /\ Len(last.beatIds) < 2)
          => beats = last.pre /\ mergeCalls = last.calls

\* C9 witness: handleMergeBeats was called with the id of one beat, twice
C9_Witness ==
    /\ last.op = "handleMergeBeats"
    /\ Len(last.beatIds) = 2
    /\ last.beatIds[1] = last.beatIds[2]
    /\ Cardinality(SelectedIdx) = 1
    /\ Len(beats) >= 2

\* C9 witness: the Timeline's handleMerge ran with one selected beat
C9_WitnessTimeline ==
    /\ last.op = "handleMerge"
    /\ Len(last.beatIds) = 1
    /\ Cardinality(SelectedIdx) = 1

\* C10: the merged beat has the bRollImage, overlayType, isEnabled,
\* bRollSettings, styleConfig and visualPrompt of a selected beat with the
\* smallest startTime, whatever the order of the ids and the values of the
\* later beats.
C10_MergeVisualIdentity ==
    MergeHappened =>
        /\ MergedPositions # {}
        /\ \A m \in MergedPositions :
              \E i \in SelectedIdx :
                 /\ IsMinStart(i)
                 /\ beats[m].bRollImage = last.pre[i].bRollImage
                 /\ beats[m].overlayType = last.pre[i].overlayType
                 /\ beats[m].isEnabled = last.pre[i].isEnabled
                 /\ beats[m].bRollSettings = last.pre[i].bRollSettings
                 /\ beats[m].styleConfig = last.pre[i].styleConfig
                 /\ beats[m].visualPrompt = last.pre[i].visualPrompt

\* C10 witness: the earliest selected beat was disabled, a later one enabled,
\* the ids were passed latest first, and the merged beat is disabled
C10_Witness ==
    /\ MergeHappened
    /\ \E i, j \in SelectedIdx :
          /\ IsMinStart(i)
          /\ ~ last.pre[i].isEnabled
          /\ last.pre[j].isEnabled
          /\ last.beatIds[1] = last.pre[j].id
          /\ last.pre[i].overlayType # last.pre[j].overlayType
    /\ \A m \in MergedPositions : ~ beats[m].isEnabled

---------------------------------------------------------------------------
(* Galleries and ids *)

\* The selected beat at position i comes before the one at j in the order the
\* stable sort by startTime gives
SortsBefore(i, j) ==
    \/ RLess(last.pre[i].startTime, last.pre[j].startTime)
    \/ last.pre[i].startTime = last.pre[j].startTime /\ i < j

\* The positions of the selected beats in that order
SelectedInOrder ==
    CHOOSE ord \in [1..Cardinality(SelectedIdx) -> SelectedIdx] :
        \A a, b \in 1..Cardinality(SelectedIdx) : a < b => SortsBefore(ord[a], ord[b])

\* The galleries of the selected beats, one behind the other
SelectedGalleries ==
    Concat([a \in 1..Cardinality(SelectedIdx) |->
               last.pre[SelectedInOrder[a]].bRollOptions])

Elements(arr) == {arr[i] : i \in 1..Len(arr)}

FirstPosition(arr, x) == CHOOSE i \in 1..Len(arr) :
                            arr[i] = x /\ \A j \in 1..(i - 1) : arr[j] # x

NoDuplicates(arr) == \A i, j \in 1..Len(arr) : i # j => arr[i] # arr[j]

C12_SplitChildren ==
    SplitHappened =>
        \A k \in 1..SplitCount :
            /\ SplitChildren[k].id \notin IdsOf(last.pre)
            /\ SplitChildren[k].overlayType = SplitOriginal.overlayType
            /\ SplitChildren[k].styleConfig = SplitOriginal.styleConfig
            /\ SplitChildren[k].bRollImage = Undefined
            /\ SplitChildren[k].bRollOptions = <<>>

\* C13: the beats of the list have pairwise distinct ids.
C13_UniqueIds ==
    \A i, j \in 1..Len(beats) : i # j => beats[i].id # beats[j].id

---------------------------------------------------------------------------
(* Export pipeline *)

\* The state of the export pipeline the executor, the recorder and the promise
\* stand for
ExportState ==
    IF promise = "rejected" THEN "Failed"
    ELSE IF promise = "resolved" THEN "Done"
    ELSE IF mediaRecorder.stopCalled THEN "Finalizing"
    ELSE IF mediaRecorder.state = "recording" THEN "Encoding"
    ELSE IF pc # "idle" THEN "Preparing"
    ELSE "Idle"

\* The states that may come right before a state
ComesFrom(state) ==
    CASE state = "Idle" -> {}
      [] state = "Preparing" -> {"Idle"}
      [] state = "Encoding" -> {"Preparing"}
      [] state = "Finalizing" -> {"Encoding"}
      [] state = "Done" -> {"Finalizing"}
      [] state = "Failed" -> {"Idle", "Preparing", "Encoding", "Finalizing"}

ExportStep ==
    /\ ExportState' # ExportState => ExportState \in ComesFrom(ExportState')
    /\ mediaRecorder.stopCalled =>
          /\ lastFrame' = lastFrame
          /\ reports' = reports

\* C14: one call of renderVideoToBlob moves only forward through Preparing,
\* Encoding, Finalizing and Done, or ends in Failed, which like Done is never
\* left again, so that the caller gets a blob or an error and never both; once
\* the recorder has been stopped no frame is drawn and no progress reported;
\* Done is reached only after the ended event of the video.
C14_ExportStateMachine ==
    /\ [][ExportStep]_vars
    /\ [](ExportState = "Done" => video.endedFired)
    /\ [](lastFrame.drawn => lastFrame.recorder = "recording")

\* C14 witness: the export is Done after frames were drawn and progress reported
C14_Witness ==
    /\ ExportState = "Done"
    /\ lastFrame.drawn
    /\ Len(reports) >= 2

C16_ExportResourceRelease ==
    ExportState \in {"Done", "Failed"} =>
        /\ audioCtx.state # "running"
        /\ audioCtx.source # "connected"
        /\ mediaRecorder.state # "recording"
        /\ video.removed
        /\ canvas # "created"

\* C17: one Image is created for every image a beat refers to, and none twice;
\* once every Image has loaded or failed, whichever, the recorder can be
\* started; the export is not Failed unless the video failed, the canvas gave
\* no context or playback did not start.
C17_SoftAssetFailure ==
    /\ pc \in {"preload", "play", "loop", "returned"} /\ mediaRecorder.state # "none" =>
          /\ \A k \in 1..Len(exportBeats) :
                exportBeats[k].bRollImage # Undefined =>
                   Cardinality({i \in 1..Len(imageCache) :
                                   imageCache[i].url = exportBeats[k].bRollImage}) = 1
          /\ \A i \in 1..Len(imageCache) :
                \E k \in 1..Len(exportBeats) : exportBeats[k].bRollImage = imageCache[i].url
    /\ (/\ pc = "preload"
        /\ \A i \in 1..Len(imageCache) : imageCache[i].state \in {"loaded", "broken"})
          => ENABLED StartEncoding
    /\ ExportState = "Failed" => video.error \/ pc = "returned"

\* C17 witness: an image failed to load and the export is Done
C17_Witness ==
    /\ \E i \in 1..Len(imageCache) : imageCache[i].state = "broken"
    /\ \E i \in 1..Len(imageCache) : imageCache[i].state = "loaded"
    /\ ExportState = "Done"

---------------------------------------------------------------------------
(* Disabled beats *)

\* The times looked at: where a beat starts, its middle and where it ends
SampleTimes(list) ==
    UNION { { list[i].startTime,
              LET sum == RAdd(list[i].startTime, list[i].endTime)
              IN  Norm(sum[1], 2 * sum[2]),
              list[i].endTime } : i \in 1..Len(list) }

Covering(list, time) ==
    {i \in 1..Len(list) : RLeq(list[i].startTime, time) /\ RLess(time, list[i].endTime)}

AllLoaded(list) == [u \in {list[i].bRollImage : i \in 1..Len(list)} |-> "loaded"]

\* What the frame is without the fields that tell how it was drawn
Shown(frame) == [f \in {"aRoll", "aRollTop", "aRollOffsetY", "divider", "bRoll", "bRollHeight"}
                    |-> frame[f]]

Toggled == /\ last.op = "updateBeat"
           /\ \E i \in 1..Len(beats) : beats[i].isEnabled # last.pre[i].isEnabled

\* C18: at every time that only disabled beats cover, preview and export show
\* the A-roll contained in the full frame, no divider and no image, as they do
\* for a list without beats; a toggle of isEnabled leaves startTime, endTime,
\* textSegment, bRollImage and bRollOptions of every beat as they were.
C18_DisabledSuppressed ==
    /\ \A time \in SampleTimes(beats) :
          (/\ Covering(beats, time) # {}
           /\ \A i \in Covering(beats, time) : ~ beats[i].isEnabled)
          => /\ PreviewFrame(beats, time) = PreviewFrame(<<>>, time)
             /\ PreviewFrame(beats, time).aRoll = "contain"
             /\ PreviewFrame(beats, time).bRoll = Undefined
             /\ ~ PreviewFrame(beats, time).divider
             /\ \A throws \in BOOLEAN :
                   LET frame == ExportFrame(beats, time, AllLoaded(beats), throws)
                   IN  /\ frame = ExportFrame(<<>>, time, <<>>, throws)
                       /\ frame.aRoll = "contain"
                       /\ frame.bRoll = Undefined
                       /\ ~ frame.divider
                       /\ Shown(frame) = PreviewFrame(beats, time)
    /\ Toggled =>
          /\ Len(beats) = Len(last.pre)
          /\ \A i \in 1..Len(beats) :
                /\ beats[i].startTime = last.pre[i].startTime
                /\ beats[i].endTime = last.pre[i].endTime
                /\ beats[i].textSegment = last.pre[i].textSegment
                /\ beats[i].bRollImage = last.pre[i].bRollImage
                /\ beats[i].bRollOptions = last.pre[i].bRollOptions

\* C18 witness: a split beat with an image has just been disabled
C18_Witness ==
    /\ Toggled
    /\ \E i \in 1..Len(beats) :
          /\ ~ beats[i].isEnabled
          /\ beats[i].overlayType = SPLIT
          /\ beats[i].bRollImage # Undefined
          /\ Covering(beats, beats[i].startTime) = {i}

---------------------------------------------------------------------------
(* Bounded retry *)

\* A rate-limit or quota failure, by the status and the message of the error
QuotaFailure(error) ==
    \/ error.status = 429
    \/ \E i \in 1..Len(error.message) :
          error.message[i] \in {"429", "quota", "RESOURCE_EXHAUSTED"}

ExpectedWaits(n) == [k \in 1..n |-> 4000 * 2 ^ (k - 1)]

RetrySafe ==
    /\ retry.calls <= 6
    /\ retry.waits = ExpectedWaits(Len(retry.waits))
    /\ retry.pc = "calling" => retry.calls = Len(retry.waits)
    /\ retry.pc = "waiting" => /\ retry.calls = Len(retry.waits) + 1
                               /\ QuotaFailure(retry.error)
    /\ retry.pc = "returned" => retry.calls = Len(retry.waits) + 1
    /\ retry.pc = "thrown" =>
          /\ retry.calls = Len(retry.waits) + 1
          /\ retry.thrown = retry.error
          /\ QuotaFailure(retry.error) => retry.calls = 6
    /\ retry.calls > 1 => Len(retry.waits) >= retry.calls - 1

\* C19: runWithRetry calls the request at most 6 times; every call but the
\* first follows a quota failure (status 429, or "429", "quota" or
\* "RESOURCE_EXHAUSTED" in the message) and a wait of 4000 ms, 8000 ms and so on,
\* doubled each time; any other error is thrown on at once, a result is
\* returned without another call, the last error is thrown on after the sixth
\* call; the call always comes to an end.
C19_BoundedRetry ==
    /\ []RetrySafe
    /\ [][retry.pc \in {"returned", "thrown"} => retry' = retry]_vars
    /\ (retry.pc = "calling") ~> (retry.pc \in {"returned", "thrown"})

\* C19 witness: the sixth call failed with a quota error after five waits, the
\* last of 64000 ms, and the error was thrown on
C19_Witness ==
    /\ retry.pc = "thrown"
    /\ retry.calls = 6
    /\ Len(retry.waits) = 5
    /\ retry.waits[5] = 64000
    /\ QuotaFailure(retry.thrown)

---------------------------------------------------------------------------
(* Bulk generation *)

InFlight == {r \in 1..Len(bulkRuns) : bulkRuns[r].pc = "request"}

\* C20: at most one image request of bulk generation is in flight at any moment.
C20_BulkSerialized == Cardinality(InFlight) <= 1

---------------------------------------------------------------------------
(* Galleries under image requests *)

\* a is part of b, in the order of a
RECURSIVE IsPartInOrder(_, _)
IsPartInOrder(a, b) ==
    IF a = <<>> THEN TRUE
    ELSE IF b = <<>> THEN FALSE
    ELSE IF Head(a) = Head(b) THEN IsPartInOrder(Tail(a), Tail(b))
    ELSE IsPartInOrder(a, Tail(b))

\* A step that leaves the beats in their places and takes no image out of a
\* gallery, nor changes the order of the images it holds
GalleriesGrow ==
    /\ Len(beats') = Len(beats)
    /\ \A k \in 1..Len(beats) :
          /\ beats'[k].id = beats[k].id
          /\ IsPartInOrder(beats[k].bRollOptions, beats'[k].bRollOptions)

\* A selection: updateBeat with nothing but bRollImage
SelectionStep ==
    /\ last' # last
    /\ last'.op = "updateBeat"
    /\ \E k \in 1..Len(beats) : beats'[k].bRollImage # beats[k].bRollImage

GalleriesKept == \A k \in 1..Len(beats) : beats'[k].bRollOptions = beats[k].bRollOptions

\* C21: as long as a beat lives, under uploads, selections and the answers of
\* regeneration and of generation from a prompt in any order, no image leaves
\* its gallery and the images keep their order; a selection leaves the gallery
\* as it is. (A new analysis makes all beats anew.)
C21_GalleryAppendOnly ==
    [][ /\ (HandleAnalyzeBeats \/ GalleriesGrow)
        /\ (SelectionStep => GalleriesKept) ]_vars

\* C22: when a request of handleGenerateImageFromPrompt fails, for one version
\* or several, and nothing else touched the list meanwhile, an error is
\* reported and the beat list is the list from before the operation.
C22_NoPartialMutation ==
    [][ \A r \in 1..Len(imageRequests) :
           ( /\ imageRequests[r].op = "prompt"
             /\ imageRequests' = Without(imageRequests, r)
             /\ steps' = steps
             /\ imageDone'.op = "prompt"
             /\ imageDone'.outcome = "failed"
             /\ imageRequests[r].alone
             /\ beats = imageRequests[r].mine )
           => /\ imageDone'.error = "Failed to generate image"
              /\ beats' = imageRequests[r].pre ]_vars

\* C28: every beat with a selected image has that image in its gallery.
C28_SelectedInGallery ==
    \A k \in 1..Len(beats) :
       beats[k].bRollImage # Undefined
          => Includes(beats[k].bRollOptions, beats[k].bRollImage)

\* The last operation was a split that took the beat of the request out of
\* the list, after the request had gone out and before any answer
SplitSinceRequest(req) ==
    /\ last.op = "handleSplitBeat"
    /\ last.beatId = req.beatId
    /\ req.i = 0
    /\ req.mine = last.pre
    /\ \A i, j \in 1..Len(last.pre) : i # j => last.pre[i].id # last.pre[j].id
    /\ SplitAccepted(last.pre, last.beatId, last.startIdx, last.endIdx)
    /\ beats = SplitBeat(last.pre, last.beatId, last.startIdx, last.endIdx, last.t)

\* C30: the answer to an image request for a beat that a split has taken out
\* of the list meanwhile leaves the beat list as it is.
C30_LateResults ==
    [][ \A r \in 1..Len(imageRequests) :
           ( /\ imageRequests[r].op = "prompt"
             /\ steps' = steps
             /\ imageRequests' # imageRequests
             /\ SplitSinceRequest(imageRequests[r]) )
           => beats' = beats ]_vars

---------------------------------------------------------------------------
(* The analysis of the video *)

\* The analysis r comes to its end in this step
AnalysisEnds(r) ==
    /\ r \in 1..Len(aRoll.analyses)
    /\ aRoll'.analyses = Without(aRoll.analyses, r)
    /\ aRoll'.uploads = aRoll.uploads

\* C29: the end of an analysis whose video is no longer the A-roll, after
\* handleRemoveARoll or a later upload, changes neither the beats nor the
\* transcript; and isAnalyzing is true exactly while an analysis is under way.
C29_StaleAnalysis ==
    /\ [](aRoll.isAnalyzing <=> aRoll.analyses # <<>>)
    /\ [][ \A r \in 1..Len(aRoll.analyses) :
              (AnalysisEnds(r) /\ aRoll.analyses[r] # aRoll.url)
                 => (beats' = beats /\ aRoll'.transcript = aRoll.transcript) ]_vars

---------------------------------------------------------------------------
(* Audio contexts *)

\* C23: mergeAudioClips, extractAudioFromVideo and every attempt of
\* generateSpeech have closed the audio context they opened when they return
\* or throw; after any sequence of these operations no context is open.
C23_ScopedAudioContexts ==
    /\ audio.pc \in {"idle", "await"} => audio.open = 0
    /\ audio.pc \in {"try", "finally"} => audio.open = 1

\* C23 witness: the second operation threw inside its try block, with its
\* context closed
C23_Witness ==
    /\ audio.pc = "idle"
    /\ audio.ops = 2
    /\ audio.outcome = "thrown"
    /\ audio.ctx = "closed"

---------------------------------------------------------------------------
(* The crop of the video *)

\* The rectangle of C24 for a source sw x sh, a band tw x th and a pan p
ClaimedCrop(sw, sh, tw, th, p) ==
    IF sw * th > tw * sh
    THEN LET croppedWidth == Norm(sh * tw, th)
         IN  [sX |-> RDiv(RSub(Num(sw), croppedWidth), Num(2)), sY |-> Num(0),
              sW |-> croppedWidth, sH |-> Num(sh)]
    ELSE LET croppedHeight == Norm(sw * th, tw)
         IN  [sX |-> Num(0),
              sY |-> RDiv(RMul(RSub(Num(sh), croppedHeight), Num(p)), Num(100)),
              sW |-> Num(sw), sH |-> croppedHeight]

InsideSource(r, sw, sh) ==
    /\ RLeq(Num(0), r.sX)
    /\ RLeq(Num(0), r.sY)
    /\ RLeq(RAdd(r.sX, r.sW), Num(sw))
    /\ RLeq(RAdd(r.sY, r.sH), Num(sh))

\* C24: a video wider than the band is cropped to its full height and the
\* width sh*tw/th, centred, at the top; any other video is cropped to its full
\* width and the height sw*th/tw, (sh - height)*p/100 from the top; the
\* rectangle lies inside the video and has the proportions of the band.
C24_CoverCrop ==
    crop.pc = "drawn" =>
       LET in == crop.in
       IN  /\ crop.rect = ClaimedCrop(in.sw, in.sh, in.tw, in.th, in.p)
           /\ InsideSource(crop.rect, in.sw, in.sh)
           /\ RDiv(crop.rect.sW, crop.rect.sH) = Norm(in.tw, in.th)

\* C24 witness: 1920x1080 into 1080x600 at pan 50 is cropped to 1920 x 3200/3,
\* 20/3 from the top, half of what is cut off
C24_Witness ==
    /\ crop.pc = "drawn"
    /\ crop.in = [sw |-> 1920, sh |-> 1080, tw |-> 1080, th |-> 600, p |-> 50]
    /\ crop.rect = [sX |-> Num(0), sY |-> <<20, 3>>, sW |-> Num(1920), sH |-> <<3200, 3>>]

---------------------------------------------------------------------------
(* The samples of the WAV file *)

\* The value C25 gives for a sample s
ClaimedSample(s) ==
    LET c == IF RLess(s, Num(-1)) THEN Num(-1) ELSE IF RLess(Num(1), s) THEN Num(1) ELSE s
    IN  IF RLess(c, Num(0)) THEN Trunc(RMul(c, Num(32768)))
        ELSE Trunc(RMul(c, Num(32767)))

\* C25: a sample s, clamped to [-1, 1], is stored as trunc(s*32768) when it is
\* negative and as trunc(s*32767) otherwise, a value from -32768 to 32767.
C25_WavQuantization ==
    wav.pc = "written" =>
       /\ wav.stored = ClaimedSample(wav.sample)
       /\ wav.stored \in -32768..32767

---------------------------------------------------------------------------
(* Preview and export *)

\* The settings a beat row can give a beat: no height or a height, no pan or
\* a pan
SettingsTried ==
    { [x |-> 0, y |-> 0, scale |-> 1, height |-> h, aRollOffsetY |-> o] :
         h \in {0, 30, 50}, o \in {Unset, 0, 100} }

\* The list, and the list with the settings of one beat changed
Variants(list) ==
    {list} \cup { [list EXCEPT ![i].bRollSettings = st] :
                     i \in 1..Len(list), st \in SettingsTried }

\* The heights of the two bands of the export, in pixels of a canvas of the
\* given height: splitPixelH and aRollH
ExportBands(height, splitHPercent) ==
    LET splitPixelH == RMul(Num(height), Norm(splitHPercent, 100))
    IN  <<splitPixelH, RSub(Num(height), splitPixelH)>>

\* The heights of the two bands of the preview, in percent of its frame
PreviewBands(splitHeight) == <<splitHeight, 100 - splitHeight>>

\* What the beat at a time asks for: layout, top band and pan
Asked(list, time) ==
    LET k == FindCurrentBeat(list, time)
    IN  IF k = 0 \/ list[k].overlayType # SPLIT
        THEN [aRoll |-> "contain", aRollTop |-> 0, aRollOffsetY |-> Unset]
        ELSE [aRoll |-> "crop",
              aRollTop |-> IF list[k].bRollSettings.height = 0 THEN 50
                           ELSE list[k].bRollSettings.height,
              aRollOffsetY |-> IF list[k].bRollSettings.aRollOffsetY = Unset THEN 50
                               ELSE list[k].bRollSettings.aRollOffsetY]

Layout(frame) == [f \in {"aRoll", "aRollTop", "aRollOffsetY"} |-> frame[f]]

\* C26: at every time, preview and export frame show the same layout (split
\* exactly for an enabled beat of type SPLIT that covers the time, the first
\* in the list), the same top band (the height, 50 for none) and the same pan
\* (aRollOffsetY, 50 for none); in split mode the two bands fill the frame.
C26_PreviewExportAgree ==
    \A list \in Variants(beats) :
    \A time \in SampleTimes(list) :
       LET preview == PreviewFrame(list, time)
           export == ExportFrame(list, time, AllLoaded(list), FALSE)
       IN  /\ Layout(preview) = Layout(export)
           /\ Layout(export) = Asked(list, time)
           /\ preview.divider = export.divider
           /\ export.aRoll = "crop" =>
                 /\ \A height \in {1080, 1920} :
                       LET bands == ExportBands(height, export.aRollTop)
                       IN  RAdd(bands[1], bands[2]) = Num(height)
                 /\ PreviewBands(preview.aRollTop)[1] + PreviewBands(preview.aRollTop)[2] = 100

\* C26 witness: a split beat whose height a beat row has set and whose pan is
\* not set, next to a disabled beat
C26_Witness ==
    /\ \E i \in 1..Len(beats) :
          /\ beats[i].isEnabled
          /\ beats[i].overlayType = SPLIT
          /\ beats[i].bRollSettings.height = 30
          /\ beats[i].bRollSettings.aRollOffsetY = Unset
          /\ PreviewFrame(beats, beats[i].startTime).aRollTop = 30
    /\ \E j \in 1..Len(beats) : ~ beats[j].isEnabled

---------------------------------------------------------------------------
(* The export and its button *)

Settled == promise \in {"resolved", "rejected"}

\* C27: when the video and the images load or fail to and a playback that has
\* started ends or fails, every export that is started settles, and
\* handleExportVideo then sets isExporting to false and the progress to 0,
\* whatever the outcome; an export stops in no other way.
C27_ExportLiveness ==
    /\ exportUi.isExporting ~> Settled
    /\ (exportUi.isExporting /\ Settled)
          ~> (~ exportUi.isExporting /\ exportUi.resetAt = Len(reports))
    /\ [][(exportUi.isExporting /\ ~ exportUi'.isExporting) => Settled]_vars

=============================================================================
